---- MODULE Spec2Model ----
(***************************************************************************)
(* The interactive analysis engine of                                      *)
(* app/services/interpretation/result_interpreter.py:                      *)
(*   - DockerExecutor.execute / execute_compute, one container job at a    *)
(*     time, as a sequence of steps (temp dirs, container run, wait, logs, *)
(*     kill, remove, artifact collection, temp-dir cleanup);               *)
(*   - ResultInterpreter._interactive_interpret, the turn loop that asks   *)
(*     the planner, decodes its answer, dispatches jobs and builds the     *)
(*     report.                                                             *)
(* Python strings are modelled as sequences of tokens or segments, so that *)
(* parsing, stripping, truncation and joining are computed, not assumed.   *)
(***************************************************************************)
EXTENDS Integers, Sequences, FiniteSets, TLC

\* ------------------------------------------------------------------ bounds
\* Most figures one container run leaves open (the footer saves one file each).
MaxFigures == 2
\* Most backend / OS faults (raised exceptions) injected in one session.
MaxFaults == 1

\* ------------------------------------------------------- program constants
\* ResultInterpreter.__init__: self.max_interactive_turns = 4
max_interactive_turns == 4
\* _truncate_output(text, limit=6000)
limit == 6000

Last(seq) == seq[Len(seq)]

\* ------------------------------------------------------------ text helpers
\* A text is a sequence of segments; a segment stands for n characters.
Seg(s, n) == [s |-> s, n |-> n]

RECURSIVE TextLen(_)
TextLen(t) == IF t = <<>> THEN 0 ELSE Head(t).n + TextLen(Tail(t))

\* text[:k]
RECURSIVE TakeChars(_, _)
TakeChars(t, k) ==
    IF t = <<>> \/ k <= 0 THEN <<>>
    ELSE IF Head(t).n <= k
         THEN <<Head(t)>> \o TakeChars(Tail(t), k - Head(t).n)
         ELSE <<Seg(Head(t).s, k)>>

IsWs(seg) == seg.s = "ws"

\* str.strip() on a text: whitespace segments at both ends go.
RECURSIVE LStrip(_)
LStrip(t) == IF t # <<>> /\ IsWs(Head(t)) THEN LStrip(Tail(t)) ELSE t

RECURSIVE RStrip(_)
RStrip(t) ==
    IF t # <<>> /\ IsWs(t[Len(t)]) THEN RStrip(SubSeq(t, 1, Len(t) - 1)) ELSE t

TextStrip(t) == RStrip(LStrip(t))

TruncMarker == Seg("\n...<truncated>...", 18)

_truncate_output_all(text) == text

\* text if len(text) <= limit else text[:limit] + "\n...<truncated>..."
_truncate_output(text) ==
    IF TextLen(text) <= limit THEN text
    ELSE TakeChars(text, limit) \o <<TruncMarker>>

\* str.strip() on the short strings of the model: " " is the blank string.
StrStrip(s) == IF s = " " THEN "" ELSE s

\* ------------------------------------------------- planner response values
\* A JSON field value: absent key, null, a (truthy) number, or a string.  A
\* string is either a plain word (s) or a code text (toks, a token sequence).
Absent == [k |-> "absent", s |-> "", toks |-> <<>>]
Null == [k |-> "null", s |-> "", toks |-> <<>>]
Num == [k |-> "number", s |-> "", toks |-> <<>>]
Str(s) == [k |-> "str", s |-> s, toks |-> <<>>]
Txt(toks) == [k |-> "str", s |-> "", toks |-> toks]

Fig(title, description_md) == [title |-> title, description_md |-> description_md]

Obj(action, code, chart_code, summary_md, figures) ==
    [type |-> "object", action |-> action, code |-> code,
     chart_code |-> chart_code, summary_md |-> summary_md, figures |-> figures]

JsonArray == [type |-> "array", action |-> Absent, code |-> Absent,
              chart_code |-> Absent, summary_md |-> "", figures |-> <<>>]

NoJson == [type |-> "none", action |-> Absent, code |-> Absent,
           chart_code |-> Absent, summary_md |-> "", figures |-> <<>>]

\* Lines of a response text.
FenceLine == [t |-> "fence", v |-> NoJson]
ProseLine == [t |-> "prose", v |-> NoJson]
BlankLine == [t |-> "blank", v |-> NoJson]
JsonLine(v) == [t |-> "json", v |-> v]

\* Code tokens: "FENCE_PY" (three backticks and the word python), "FENCE"
\* (three backticks), "NL" (newline), "ESC" (a backslash and an n), "SP"
\* (blank) and statements.
PyFenced(body) == Txt(<<"FENCE_PY", "NL">> \o body \o <<"NL", "FENCE">>)
GenFenced(body) == Txt(<<"FENCE", "NL">> \o body \o <<"NL", "FENCE">>)

\* ------------------------------------------------------------ _parse_json
IsBlank(line) == line.t = "blank"

\* text.strip() on a sequence of lines: blank lines at both ends go.
RECURSIVE LinesLStrip(_)
LinesLStrip(ls) ==
    IF ls # <<>> /\ IsBlank(Head(ls)) THEN LinesLStrip(Tail(ls)) ELSE ls

RECURSIVE LinesRStrip(_)
LinesRStrip(ls) ==
    IF ls # <<>> /\ IsBlank(ls[Len(ls)])
    THEN LinesRStrip(SubSeq(ls, 1, Len(ls) - 1)) ELSE ls

LinesStrip(ls) == LinesRStrip(LinesLStrip(ls))

\* while lines and lines[-1].strip().startswith(fence): lines.pop()
RECURSIVE PopFences(_)
PopFences(ls) ==
    IF ls # <<>> /\ ls[Len(ls)].t = "fence"
    THEN PopFences(SubSeq(ls, 1, Len(ls) - 1)) ELSE ls

\* The text handed to json.loads.
Cleaned(text) ==
    LET cleaned == LinesStrip(text)
    IN  IF cleaned # <<>> /\ Head(cleaned).t = "fence"
        THEN LinesStrip(PopFences(Tail(cleaned)))
        ELSE cleaned

\* json.loads decodes exactly one JSON value and nothing else.
JsonLoads(ls) ==
    IF Len(ls) = 1 /\ ls[1].t = "json"
    THEN [ok |-> TRUE, v |-> ls[1].v]
    ELSE [ok |-> FALSE, v |-> NoJson]

\* ok = FALSE stands for the ValueError raised on JSONDecodeError.
_parse_json(text) == JsonLoads(Cleaned(text))

\* s.strip().lower() on the action words of the model.
StripLower(s) ==
    CASE s = " Final " -> "final"
      [] s = "COMPUTE" -> "compute"
      [] OTHER -> s

\* action = (payload.get("action") or "").strip().lower()
\* err = TRUE stands for the AttributeError of .get on a non-dict payload or
\* of .strip on a truthy non-string.
ActionOf(payload) ==
    IF payload.type # "object" THEN [err |-> TRUE, action |-> ""]
    ELSE CASE payload.action.k = "absent" -> [err |-> FALSE, action |-> ""]
           [] payload.action.k = "null" -> [err |-> FALSE, action |-> ""]
           [] payload.action.k = "number" -> [err |-> TRUE, action |-> ""]
           [] OTHER -> [err |-> FALSE, action |-> StripLower(payload.action.s)]

\* ----------------------------------------------------------- _extract_code
IsFenceTok(tok) == tok \in {"FENCE", "FENCE_PY"}
IsWsTok(tok) == tok \in {"NL", "SP"}

SetMin(S) == CHOOSE m \in S : \A x \in S : m <= x

RECURSIVE ToksLStrip(_)
ToksLStrip(c) == IF c # <<>> /\ IsWsTok(Head(c)) THEN ToksLStrip(Tail(c)) ELSE c

RECURSIVE ToksRStrip(_)
ToksRStrip(c) ==
    IF c # <<>> /\ IsWsTok(c[Len(c)])
    THEN ToksRStrip(SubSeq(c, 1, Len(c) - 1)) ELSE c

ToksStrip(c) == ToksRStrip(ToksLStrip(c))

Count(c, tok) == Cardinality({i \in 1..Len(c) : c[i] = tok})

\* code.replace("\\n", "\n")
Unescape(c) == [i \in 1..Len(c) |-> IF c[i] = "ESC" THEN "NL" ELSE c[i]]

_normalize_code_newlines(code) ==
    IF Count(code, "NL") <= 1 /\ Count(code, "ESC") > 0
    THEN LET candidate == Unescape(code)
         IN  IF Count(candidate, "NL") > Count(code, "NL") THEN candidate ELSE code
    ELSE code

\* Positions where a lazy fenced match can open (openers) and where it closes.
Openers(toks, openTok) ==
    {i \in 1..Len(toks) :
        /\ toks[i] \in openTok
        /\ \E j \in (i + 1)..Len(toks) : IsFenceTok(toks[j])}

Block(toks, i) ==
    LET j == SetMin({j \in (i + 1)..Len(toks) : IsFenceTok(toks[j])})
    IN  SubSeq(toks, i + 1, j - 1)

NoCode == [kind |-> "none", code |-> <<>>]
Code(c) == [kind |-> "code", code |-> c]

_extract_code_leftmost(toks) ==
    LET generic == Openers(toks, {"FENCE", "FENCE_PY"})
    IN  IF generic # {}
        THEN Code(_normalize_code_newlines(
                     ToksStrip(Block(toks, SetMin(generic)))))
        ELSE NoCode

\* re.search leftmost python-tagged block, else leftmost generic block.
_extract_code(toks) ==
    LET py == Openers(toks, {"FENCE_PY"})
        generic == Openers(toks, {"FENCE", "FENCE_PY"})
    IN  IF py # {}
        THEN Code(_normalize_code_newlines(ToksStrip(Block(toks, SetMin(py)))))
        ELSE IF generic # {}
             THEN Code(_normalize_code_newlines(
                          ToksStrip(Block(toks, SetMin(generic)))))
             ELSE NoCode

Missing_never(code) == FALSE

\* `if not code`: None or the empty string.
Missing(code) == code.kind = "none" \/ code.code = <<>>

\* ------------------------------------------------ _build_analysis_markdown
\* A destination path: os.path.join(output_dir, f"{output_prefix}_{idx}.png").
Path(prefix, idx) == [prefix |-> prefix, idx |-> idx]
NoPath == Path("", 0)

\* One element of `sections`; "\n\n".join keeps their order.
Sec(kind, title, image, text) ==
    [kind |-> kind, title |-> title, image |-> image, text |-> text]

\* fig.get("title") or f"Figure {idx + 1}"   (idx is 1-based here)
TitleOf(fig, idx) == IF fig.title # "" THEN fig.title ELSE "Figure " \o ToString(idx)

\* the optional description section: appended `if description`, stripped
DescOf(fig) ==
    IF fig.description_md # ""
    THEN <<Sec("text", "", NoPath, StrStrip(fig.description_md))>>
    ELSE <<>>

Min2(a, b) == IF a <= b THEN a ELSE b

\* the two loops of the function, from 1-based position idx on
RECURSIVE FigSections(_, _, _, _)
FigSections(figures, images, pairs, idx) ==
    IF idx > Len(figures) THEN <<>>
    ELSE LET title == TitleOf(figures[idx], idx)
             head == <<Sec("heading", title, NoPath, "")>>
             img == IF idx <= pairs
                    THEN <<Sec("image", title, images[idx], "")>>
                    ELSE <<>>
         IN  head \o img \o DescOf(figures[idx])
                  \o FigSections(figures, images, pairs, idx + 1)

\* `section for section in sections if section`
NonEmpty(sec) == sec.kind \in {"heading", "image"} \/ sec.text # ""

_build_analysis_markdown_nopairs(summary_md, figures, images) ==
    SelectSeq((IF summary_md # ""
               THEN <<Sec("summary", "", NoPath, StrStrip(summary_md))>>
               ELSE <<>>)
              \o FigSections(SubSeq(figures, 1, Min2(Len(figures), Len(images))),
                             images, Min2(Len(figures), Len(images)), 1),
              NonEmpty)

_build_analysis_markdown_extra(summary_md, figures, images) ==
    SelectSeq((IF summary_md # ""
               THEN <<Sec("summary", "", NoPath, StrStrip(summary_md))>>
               ELSE <<>>)
              \o FigSections(figures, images, Min2(Len(figures), Len(images)), 1)
              \o [i \in 1..(Len(images) - Min2(Len(figures), Len(images))) |->
                     Sec("image", "", images[Len(figures) + i], "")],
              NonEmpty)

_build_analysis_markdown_noimages(summary_md, figures, images) ==
    SelectSeq((IF summary_md # ""
               THEN <<Sec("summary", "", NoPath, StrStrip(summary_md))>>
               ELSE <<>>)
              \o FigSections(figures, images, 0, 1),
              NonEmpty)

_build_analysis_markdown(summary_md, figures, images) ==
    LET pairs == Min2(Len(figures), Len(images))
        summary == IF summary_md # ""
                   THEN <<Sec("summary", "", NoPath, StrStrip(summary_md))>>
                   ELSE <<>>
    IN  SelectSeq(summary \o FigSections(figures, images, pairs, 1), NonEmpty)

\* -------------------------------------------------------- _instrument_code
\* The statements of the fixed header, one token per line of it.
header ==
    <<"import os", "makedirs /out/mplconfig", "makedirs /out/.cache",
      "environ MPLCONFIGDIR", "environ XDG_CACHE_HOME", "environ HOME",
      "environ FONTCONFIG_PATH", "import matplotlib", "matplotlib.use Agg",
      "import numpy", "import pandas", "import pyplot">>

\* The auto-save footer: a blank line, a comment and the try statement that
\* saves every open figure as /out/output_{i}.png.
footer == <<"NL", "comment auto-save", "try savefig open figures">>

_instrument_code_footer_always(code, autosave) ==
    header \o <<"NL">> \o code \o <<"NL">> \o footer

\* header + "\n" + code + "\n" (+ footer when autosave)
_instrument_code(code, autosave) ==
    header \o <<"NL">> \o code \o <<"NL">>
        \o (IF autosave THEN footer ELSE <<>>)

\* ------------------------------------------------------ planner responses
ComputeCode == PyFenced(<<"calc">>)
ChartCode == PyFenced(<<"plot">>)

\* The response texts the planner may give, by name.
PlannerResponses ==
    {"prose", "fenced_prose", "compute", "compute_raw", "final_0", "final_1",
     "final_2", "final_nochart", "final_emptychart", "other", "noaction",
     "array", "numaction"}

response_text(r) ==
    CASE r = "prose" -> <<ProseLine>>
      [] r = "fenced_prose" -> <<FenceLine, ProseLine, FenceLine>>
      [] r = "compute" ->
            <<FenceLine,
              JsonLine(Obj(Str("compute"), ComputeCode, Absent, "", <<>>)),
              FenceLine, BlankLine>>
      [] r = "compute_raw" ->
            <<JsonLine(Obj(Str("COMPUTE"), Txt(<<"calc">>), Absent, "", <<>>))>>
      [] r = "final_0" ->
            <<JsonLine(Obj(Str("final"), GenFenced(<<"plot">>), ChartCode,
                           "S", <<>>))>>
      [] r = "final_1" ->
            <<BlankLine,
              JsonLine(Obj(Str("final"), Absent, ChartCode, "S",
                           <<Fig("T1", "D1")>>))>>
      [] r = "final_2" ->
            <<FenceLine,
              JsonLine(Obj(Str(" Final "), Absent,
                           Txt(<<"FENCE", "plot", "ESC", "show", "FENCE">>),
                           " ", <<Fig("", "D1"), Fig("T2", "")>>)),
              FenceLine>>
      [] r = "final_nochart" ->
            <<JsonLine(Obj(Str("final"), ComputeCode, Absent, "S",
                           <<Fig("T1", "D1")>>))>>
      [] r = "final_emptychart" ->
            <<JsonLine(Obj(Str("final"), Absent, Txt(<<>>), "S",
                           <<Fig("T1", "D1")>>))>>
      [] r = "other" ->
            <<JsonLine(Obj(Str("plot"), ComputeCode, ChartCode, "S", <<>>))>>
      [] r = "noaction" ->
            <<JsonLine(Obj(Absent, ComputeCode, Absent, "", <<>>))>>
      [] r = "array" -> <<JsonLine(JsonArray)>>
      [] OTHER ->
            <<JsonLine(Obj(Num, ComputeCode, ChartCode, "", <<>>))>>

\* ------------------------------------------------------------------ state
VARIABLES
    client,            \* DockerExecutor.client is set (TRUE) or None (FALSE)
    pc,                \* _interactive_interpret: "ask", "compute", "final",
                       \*   "returned", "raised"
    turn,              \* loop variable of `for turn in range(1, max + 1)`
    messages,          \* the transcript passed to the planner
    responses,         \* response_text of every planner request answered
    requests,          \* planner requests made (interactive_llm.chat calls)
    jobs,              \* executor jobs dispatched: mode, turn, returned value
    result,            \* the dict returned to the caller
    error,             \* the exception raised to the caller
    xpc,               \* position inside execute / execute_compute
    xmode,             \* "compute" (execute_compute) or "plot" (execute)
    script,            \* content of in_dir/run.py
    temp,              \* temporary directories of the job on the host
    container,         \* local `container`: 0 is None, else the job number
    res,               \* value returned by container.wait
    exc,               \* exception caught by `except Exception as e`
    xraise,            \* exception propagating out of the executor
    xret,              \* value returned by the executor
    out_dir,           \* files in the scratch directory
    saved,             \* rest of the sorted list the move loop walks
    generated_images,  \* local list of destination paths
    results_dir,       \* files in the destination directory
    hostContainers,    \* containers existing on the host
    removeFailed,      \* jobs whose container.remove raised
    faults,            \* faults injected so far
    sess,              \* concurrent calls: the locals of each call
    tmpdirs,           \* concurrent calls: temporary directories on the host
    tmpfiles,          \* concurrent calls: files in those directories
    results,           \* concurrent calls: files in the results directory
    written,           \* concurrent calls: who wrote which results file
    fin,               \* one call of a helper function: its arguments
    fout,              \* one call of a helper function: its result
    dt                 \* one call of DeepThinkAgent.think: its locals

parVars == <<sess, tmpdirs, tmpfiles, results, written>>
fnVars == <<fin, fout>>
dtVars == <<dt>>

vars == <<client, pc, turn, messages, responses, requests, jobs, result, error,
          xpc, xmode, script, temp, container, res, exc, xraise, xret, out_dir,
          saved, generated_images, results_dir, hostContainers, removeFailed,
          faults, parVars, fnVars, dtVars>>


\* ----------------------------------------------------------------- values
output_name == "analysis_a"
context_description == "ctx"

NoReport == [analysis |-> <<>>, charts |-> <<>>, original_context |-> "",
             plan_id |-> 0]
Report(analysis, charts) ==
    [analysis |-> analysis, charts |-> charts,
     original_context |-> context_description, plan_id |-> 1]

NoError == [type |-> "", msg |-> "", detail |-> <<>>]
Error(type, msg, detail) == [type |-> type, msg |-> msg, detail |-> detail]

\* The (success, value) tuple of the executor; text for a str, images for a list.
NoRet == [set |-> FALSE, ok |-> FALSE, text |-> <<>>, images |-> <<>>]
RetText(ok, text) == [set |-> TRUE, ok |-> ok, text |-> text, images |-> <<>>]
RetImages(images) == [set |-> TRUE, ok |-> TRUE, text |-> <<>>, images |-> images]

NoRes == [got |-> FALSE, has |-> FALSE, code |-> 0]
\* What container.wait may return: a StatusCode of 0 or 1, or no StatusCode key.
WaitResults ==
    {[got |-> TRUE, has |-> TRUE, code |-> 0],
     [got |-> TRUE, has |-> TRUE, code |-> 1],
     [got |-> TRUE, has |-> FALSE, code |-> 0]}

StatusOf_default0(r) == IF r.has THEN r.code ELSE 0

\* status = res.get("StatusCode", 1)
StatusOf(r) == IF r.has THEN r.code ELSE 1

\* What container.logs may return.
Logs == {<<Seg("out", 40), Seg("ws", 1)>>, <<Seg("big", 7000)>>}

NoExc == Seg("", 0)
Unavailable_aserror ==
    <<Seg("Execution error: ", 17), Seg("Docker client not available.", 28)>>

\* return False, "Docker client not available."
Unavailable == <<Seg("Docker client not available.", 28)>>
ExecFailed(status, logs) ==
    <<Seg("Execution failed (exit=", 23), Seg(ToString(status), 1),
      Seg("). Logs:\n", 9)>> \o logs
ExecError(e) == <<Seg("Execution error: ", 17), e>>
ErrorMarker == Seg("ERROR: ", 7)

Msg(role, kind, r, t, text) ==
    [role |-> role, kind |-> kind, r |-> r, turn |-> t, text |-> text]
SystemMsg == Msg("system", "system_prompt", "", 0, <<>>)
ContextMsg == Msg("user", "context", "", 0, <<>>)
AssistantMsg(r) == Msg("assistant", "response", r, 0, <<>>)
OutputMsg(t, text) == Msg("user", "output", "", t, text)
CorrectiveMsg == Msg("user", "corrective", "", 0, <<>>)

Job(mode, t) == [mode |-> mode, turn |-> t, ret |-> NoRet, raised |-> FALSE]

\* File names of the scratch directory: pre + mid + ext, mid a digit sequence.
RECURSIVE Digits(_)
Digits(n) == IF n < 10 THEN <<n>> ELSE Digits(n \div 10) \o <<n % 10>>

FooterName(i) == [pre |-> "output_", mid |-> Digits(i), ext |-> ".png"]
File(name, fig) == [name |-> name, fig |-> fig]

\* f.startswith("output_") and f.endswith(".png")
Matches(name) == name.pre = "output_" /\ name.ext = ".png"

\* string order of two names with the same pre and ext
RECURSIVE LexLess(_, _)
LexLess(a, b) ==
    IF a = <<>> THEN b # <<>>
    ELSE IF b = <<>> THEN FALSE
    ELSE IF Head(a) # Head(b) THEN Head(a) < Head(b)
    ELSE LexLess(Tail(a), Tail(b))

RECURSIVE Sorted_desc(_)
Sorted_desc(S) ==
    IF S = {} THEN <<>>
    ELSE LET first == CHOOSE f \in S :
                          \A g \in S \ {f} : LexLess(g.name.mid, f.name.mid)
         IN  <<first>> \o Sorted_desc(S \ {first})

\* sorted(...) of a listing: ascending string order
RECURSIVE Sorted(_)
Sorted(S) ==
    IF S = {} THEN <<>>
    ELSE LET first == CHOOSE f \in S :
                          \A g \in S \ {f} : LexLess(f.name.mid, g.name.mid)
         IN  <<first>> \o Sorted(S \ {first})

\* ------------------------------------------------------------------- Init
\* No helper function is being called on its own.
NoOut == [set |-> FALSE]
NoCall == fin = [fn |-> ""] /\ fout = NoOut
NoThinking == dt = [pc |-> "none"]

\* One call alone: no concurrent calls.
NoSessions ==
    /\ sess = <<>>
    /\ tmpdirs = {}
    /\ tmpfiles = {}
    /\ results = {}
    /\ written = {}

\* The state on entry to the turn loop: the two initial messages, no job yet.
Init ==
    /\ client \in BOOLEAN
    /\ pc = "ask"
    /\ turn = 1
    /\ messages = <<SystemMsg, ContextMsg>>
    /\ responses = <<>>
    /\ requests = 0
    /\ jobs = <<>>
    /\ result = NoReport
    /\ error = NoError
    /\ xpc = "idle"
    /\ xmode = ""
    /\ script = <<>>
    /\ temp = {}
    /\ container = 0
    /\ res = NoRes
    /\ exc = NoExc
    /\ xraise = NoExc
    /\ xret = NoRet
    /\ out_dir = {}
    /\ saved = <<>>
    /\ generated_images = <<>>
    /\ results_dir = {}
    /\ hostContainers = {}
    /\ removeFailed = {}
    /\ faults = 0
    /\ NoSessions
    /\ NoCall
    /\ NoThinking

execVars == <<xpc, xmode, script, temp, container, res, exc, xraise, xret,
              out_dir, saved, generated_images, results_dir, hostContainers,
              removeFailed, faults>>

\* ---------------------------------------------- _interactive_interpret
TurnLimitError ==
    Error("RuntimeError",
          "Interactive analysis did not complete within turn limit.", <<>>)

\* An exception leaves the function: nothing else changes.
Raise(e) ==
    /\ pc' = "raised"
    /\ error' = e
    /\ UNCHANGED <<turn, messages, jobs, result>>

LoopExhausted_never(t) == FALSE

\* range(1, max_interactive_turns + 1) has no further value after t
LoopExhausted(t) == t + 1 > max_interactive_turns

Continue_window(response, reply) ==
    /\ messages' = <<SystemMsg, ContextMsg, AssistantMsg(response), reply>>
    /\ turn' = turn + 1
    /\ IF LoopExhausted(turn)
       THEN pc' = "raised" /\ error' = TurnLimitError
       ELSE pc' = "ask" /\ error' = error
    /\ UNCHANGED result

Continue_replyonly(response, reply) ==
    /\ messages' = messages \o <<reply>>
    /\ turn' = turn + 1
    /\ IF LoopExhausted(turn)
       THEN pc' = "raised" /\ error' = TurnLimitError
       ELSE pc' = "ask" /\ error' = error
    /\ UNCHANGED result

\* Two messages are appended and the loop goes to its next iteration, or falls
\* through to the raise after it.
Continue(response, reply) ==
    /\ messages' = messages \o <<AssistantMsg(response), reply>>
    /\ turn' = turn + 1
    /\ IF LoopExhausted(turn)
       THEN pc' = "raised" /\ error' = TurnLimitError
       ELSE pc' = "ask" /\ error' = error
    /\ UNCHANGED result

\* Entry of execute (plot) / execute_compute: without a client the call returns
\* at once; otherwise the code is instrumented and the job starts.
Dispatch(mode, code) ==
    /\ jobs' = Append(jobs, Job(mode, turn))
    /\ pc' = IF mode = "plot" THEN "final" ELSE "compute"
    /\ xmode' = mode
    /\ IF ~client
       THEN /\ xret' = RetText(FALSE, Unavailable)
            /\ xpc' = "done"
            /\ script' = <<>>
       ELSE /\ xret' = NoRet
            /\ xpc' = "setup"
            /\ script' = _instrument_code(code, mode = "plot")
    /\ UNCHANGED <<turn, messages, result, error>>

MissingCodeError(which) ==
    Error("ValueError",
          IF which = "code" THEN "LLM compute response missing python code."
          ELSE "LLM final response missing chart code.", <<>>)

ExtractAndRun_unfenced(field, which, mode) ==
    IF field.k \in {"null", "number"}
    THEN Raise(Error("TypeError", "expected string or bytes-like object", <<>>))
         /\ UNCHANGED <<xpc, xmode, script, xret>>
    ELSE LET code == _extract_code(field.toks)
         IN  Dispatch(mode, IF Missing(code) THEN field.toks ELSE code.code)

\* code = self._extract_code(payload.get(key, "")); `if not code: raise`
ExtractAndRun(field, which, mode) ==
    IF field.k \in {"null", "number"}
    THEN Raise(Error("TypeError", "expected string or bytes-like object", <<>>))
         /\ UNCHANGED <<xpc, xmode, script, xret>>
    ELSE LET code == _extract_code(field.toks)
         IN  IF Missing(code)
             THEN Raise(MissingCodeError(which))
                  /\ UNCHANGED <<xpc, xmode, script, xret>>
             ELSE Dispatch(mode, code.code)

\* One planner request and the decoding of its answer, up to the dispatch of a
\* job, the corrective turn or the raise.
PlannerRespond(r) ==
    /\ pc = "ask"
    /\ requests' = requests + 1
    /\ responses' = Append(responses, r)
    /\ LET parsed == _parse_json(response_text(r))
           act == ActionOf(parsed.v)
       IN  IF ~parsed.ok
           THEN Raise(Error("ValueError", "Invalid JSON from LLM", <<>>))
                /\ UNCHANGED <<xpc, xmode, script, xret>>
           ELSE IF act.err
           THEN Raise(Error("AttributeError", "", <<>>))
                /\ UNCHANGED <<xpc, xmode, script, xret>>
           ELSE IF act.action = "compute"
           THEN ExtractAndRun(parsed.v.code, "code", "compute")
           ELSE IF act.action = "final"
           THEN ExtractAndRun(parsed.v.chart_code, "chart_code", "plot")
           ELSE Continue(r, CorrectiveMsg)
                /\ UNCHANGED <<jobs, xpc, xmode, script, xret>>
    /\ UNCHANGED <<parVars, fnVars, dtVars, client, temp, container, res, exc, xraise, out_dir, saved,
                   generated_images, results_dir, hostContainers, removeFailed,
                   faults>>

\* interactive_llm.chat raises: the exception leaves the function.
PlannerFails ==
    /\ pc = "ask"
    /\ requests' = requests + 1
    /\ Raise(Error("PlannerError", "", <<>>))
    /\ UNCHANGED <<parVars, fnVars, dtVars, client, responses>>
    /\ UNCHANGED execVars

\* The executor's locals after the call has ended.
ExecReset ==
    /\ xpc' = "idle"
    /\ xmode' = ""
    /\ script' = <<>>
    /\ container' = 0
    /\ res' = NoRes
    /\ exc' = NoExc
    /\ xraise' = NoExc
    /\ xret' = NoRet
    /\ saved' = <<>>
    /\ generated_images' = <<>>
    /\ UNCHANGED <<temp, out_dir, results_dir, hostContainers, removeFailed,
                   faults>>

JobDone == [jobs EXCEPT ![Len(jobs)].ret = xret,
                        ![Len(jobs)].raised = (xraise # NoExc)]

OutputText_nomarker(success, output) == output

\* output_text = output if success else f"ERROR: {output}"
OutputText(success, output) ==
    IF success THEN output ELSE <<ErrorMarker>> \o output

\* success, output = execute_compute(...): the feedback turn.
ComputeReturn ==
    /\ pc = "compute"
    /\ xpc = "done"
    /\ jobs' = JobDone
    /\ IF xraise # NoExc
       THEN /\ pc' = "raised"
            /\ error' = Error("OSError", xraise.s, <<>>)
            /\ UNCHANGED <<turn, messages, result>>
       ELSE LET output_text ==
                    _truncate_output(OutputText(xret.ok, xret.text))
            IN  Continue(Last(responses), OutputMsg(turn, output_text))
    /\ ExecReset
    /\ UNCHANGED <<parVars, fnVars, dtVars, client, responses, requests>>

PlotFailed_never(ret) == FALSE

\* `if not success: raise RuntimeError(...)`
PlotFailed(ret) == ~ret.ok

\* success, images = _execute_code(...): the report, or the raise.
FinalReturn ==
    /\ pc = "final"
    /\ xpc = "done"
    /\ jobs' = JobDone
    /\ LET payload == _parse_json(response_text(Last(responses))).v
       IN  IF xraise # NoExc
           THEN /\ pc' = "raised"
                /\ error' = Error("OSError", xraise.s, <<>>)
                /\ UNCHANGED <<turn, messages, result>>
           ELSE IF PlotFailed(xret)
           THEN /\ pc' = "raised"
                /\ error' = Error("RuntimeError", "Chart code execution failed",
                                  xret.text)
                /\ UNCHANGED <<turn, messages, result>>
           ELSE /\ pc' = "returned"
                /\ result' = Report(_build_analysis_markdown(
                                        payload.summary_md, payload.figures,
                                        xret.images),
                                    xret.images)
                /\ UNCHANGED <<turn, messages, error>>
    /\ ExecReset
    /\ UNCHANGED <<parVars, fnVars, dtVars, client, responses, requests>>

\* --------------------------------- DockerExecutor.execute / execute_compute
Fault == faults < MaxFaults /\ faults' = faults + 1

SetState(cs, id, state) ==
    {IF c.id = id THEN [c EXCEPT !.state = state] ELSE c : c \in cs}

\* with tempfile.TemporaryDirectory(): in, out and data are made and run.py is
\* written; a failing write leaves through the with-block.
ExecSetup ==
    /\ xpc = "setup"
    /\ temp' = {"in", "out", "data"}
    /\ \/ xpc' = "run" /\ UNCHANGED <<xraise, faults>>
       \/ Fault /\ xraise' = Seg("OSError: run.py", 15) /\ xpc' = "cleanup"
    /\ UNCHANGED <<xmode, script, container, res, exc, xret, out_dir, saved,
                   generated_images, results_dir, hostContainers, removeFailed>>
    /\ UNCHANGED <<parVars, fnVars, dtVars, client, pc, turn, messages, responses, requests, jobs,
                   result, error>>

\* container = self.client.containers.run(..., detach=True)
ExecRun ==
    /\ xpc = "run"
    /\ \/ /\ container' = Len(jobs)
          /\ hostContainers' =
                 hostContainers \cup {[id |-> Len(jobs), state |-> "running"]}
          /\ xpc' = "wait"
          /\ UNCHANGED <<exc, faults>>
       \/ /\ Fault
          /\ exc' = Seg("image not found", 15)
          /\ xpc' = "except"
          /\ UNCHANGED <<container, hostContainers>>
    /\ UNCHANGED <<xmode, script, temp, res, xraise, xret, out_dir, saved,
                   generated_images, results_dir, removeFailed>>
    /\ UNCHANGED <<parVars, fnVars, dtVars, client, pc, turn, messages, responses, requests, jobs,
                   result, error>>

\* The files the script leaves in /out: the footer's, one per open figure,
\* when a plot script runs to its end.
Produced(r, n) ==
    IF xmode = "plot" /\ r.has /\ r.code = 0
    THEN {File(FooterName(i), i) : i \in 1..n}
    ELSE {}

\* res = container.wait(timeout=self.timeout_s)
ExecWait ==
    /\ xpc = "wait"
    /\ \/ \E r \in WaitResults, n \in 0..MaxFigures :
             /\ n = 0 \/ Produced(r, n) # {}
             /\ res' = r
             /\ hostContainers' = SetState(hostContainers, container, "exited")
             /\ out_dir' = Produced(r, n)
             /\ xpc' = "logs"
             /\ UNCHANGED <<exc, faults>>
       \/ /\ exc' = Seg("Read timed out.", 15)
          /\ xpc' = "except"
          /\ UNCHANGED <<res, hostContainers, out_dir, faults>>
       \/ /\ Fault
          /\ exc' = Seg("500 Server Error", 16)
          /\ xpc' = "except"
          /\ UNCHANGED <<res, hostContainers, out_dir>>
    /\ UNCHANGED <<xmode, script, temp, container, xraise, xret, saved,
                   generated_images, results_dir, removeFailed>>
    /\ UNCHANGED <<parVars, fnVars, dtVars, client, pc, turn, messages, responses, requests, jobs,
                   result, error>>

\* logs = container.logs(...); `if status != 0: return False, ...`; and, in
\* execute_compute, `return True, logs.strip()`.
ExecLogs ==
    /\ xpc = "logs"
    /\ \/ \E l \in Logs :
             LET status == StatusOf(res)
             IN  /\ xret' = IF status # 0
                            THEN RetText(FALSE, ExecFailed(status, l))
                            ELSE IF xmode = "compute"
                                 THEN RetText(TRUE, TextStrip(l))
                                 ELSE xret
                 /\ xpc' = "finally"
                 /\ UNCHANGED <<exc, faults>>
       \/ /\ Fault
          /\ exc' = Seg("logs unavailable", 16)
          /\ xpc' = "except"
          /\ UNCHANGED xret
    /\ UNCHANGED <<xmode, script, temp, container, res, xraise, out_dir, saved,
                   generated_images, results_dir, hostContainers, removeFailed>>
    /\ UNCHANGED <<parVars, fnVars, dtVars, client, pc, turn, messages, responses, requests, jobs,
                   result, error>>

Running(id) == [id |-> id, state |-> "running"] \in hostContainers

\* except Exception as e: container.kill() if there is one, its own exception
\* swallowed; return False, f"Execution error: {e}"
ExecExcept ==
    /\ xpc = "except"
    /\ IF container # 0 /\ Running(container)
       THEN \/ /\ hostContainers' =
                      SetState(hostContainers, container, "exited")
               /\ UNCHANGED faults
            \/ Fault /\ UNCHANGED hostContainers
       ELSE UNCHANGED <<hostContainers, faults>>
    /\ xret' = RetText(FALSE, ExecError(exc))
    /\ xpc' = "finally"
    /\ UNCHANGED <<xmode, script, temp, container, res, exc, xraise, out_dir,
                   saved, generated_images, results_dir, removeFailed>>
    /\ UNCHANGED <<parVars, fnVars, dtVars, client, pc, turn, messages, responses, requests, jobs,
                   result, error>>

\* where control goes after the finally block: out through the pending
\* return, or on to the collection of outputs
AfterFinally == IF xret.set THEN "cleanup" ELSE "collect"

\* container.remove(force=True) takes the container off the host
RemoveIn(cs, id) == {c \in cs : c.id # id}

ShouldRemove_onerror == container # 0 /\ exc # NoExc

\* finally: `if container is not None`
ShouldRemove == container # 0

\* finally: container.remove(force=True) if there is one, its own exception
\* swallowed
ExecFinally ==
    /\ xpc = "finally"
    /\ IF ShouldRemove
       THEN \/ /\ hostContainers' = RemoveIn(hostContainers, container)
               /\ UNCHANGED <<removeFailed, faults>>
            \/ /\ Fault
               /\ removeFailed' = removeFailed \cup {container}
               /\ UNCHANGED hostContainers
       ELSE UNCHANGED <<hostContainers, removeFailed, faults>>
    /\ xpc' = AfterFinally
    /\ UNCHANGED <<xmode, script, temp, container, res, exc, xraise, xret,
                   out_dir, saved, generated_images, results_dir>>
    /\ UNCHANGED <<parVars, fnVars, dtVars, client, pc, turn, messages, responses, requests, jobs,
                   result, error>>

\* saved = sorted([f for f in os.listdir(out_dir) if ...]); with nothing to
\* move the call returns True, []
ExecCollect ==
    /\ xpc = "collect"
    /\ LET listing == Sorted({f \in out_dir : Matches(f.name)})
       IN  /\ saved' = listing
           /\ generated_images' = <<>>
           /\ IF listing = <<>>
              THEN xret' = RetImages(<<>>) /\ xpc' = "cleanup"
              ELSE xret' = xret /\ xpc' = "move"
    /\ UNCHANGED <<xmode, script, temp, container, res, exc, xraise, out_dir,
                   results_dir, hostContainers, removeFailed, faults>>
    /\ UNCHANGED <<parVars, fnVars, dtVars, client, pc, turn, messages, responses, requests, jobs,
                   result, error>>

\* One iteration of the move loop; after the last one, return True, images.
\* shutil.move may raise: the exception leaves execute.
ExecMove ==
    /\ xpc = "move"
    /\ LET f == Head(saved)
           dest == Path(output_name, Len(generated_images) + 1)
       IN  \/ /\ out_dir' = out_dir \ {f}
              /\ results_dir' =
                     {g \in results_dir : g.name # dest} \cup {File(dest, f.fig)}
              /\ generated_images' = Append(generated_images, dest)
              /\ saved' = Tail(saved)
              /\ IF Tail(saved) = <<>>
                 THEN /\ xret' = RetImages(Append(generated_images, dest))
                      /\ xpc' = "cleanup"
                 ELSE xret' = xret /\ xpc' = "move"
              /\ UNCHANGED <<xraise, faults>>
           \/ /\ Fault
              /\ xraise' = Seg("OSError: move", 13)
              /\ xpc' = "cleanup"
              /\ UNCHANGED <<out_dir, results_dir, generated_images, saved,
                             xret>>
    /\ UNCHANGED <<xmode, script, temp, container, res, exc, hostContainers,
                   removeFailed>>
    /\ UNCHANGED <<parVars, fnVars, dtVars, client, pc, turn, messages, responses, requests, jobs,
                   result, error>>

\* TemporaryDirectory.__exit__ removes the whole tree
Cleanup(dirs) == {}

\* Leaving the with-block, by return or by exception.
ExecCleanup ==
    /\ xpc = "cleanup"
    /\ temp' = Cleanup(temp)
    /\ out_dir' = {}
    /\ xpc' = "done"
    /\ UNCHANGED <<xmode, script, container, res, exc, xraise, xret, saved,
                   generated_images, results_dir, hostContainers, removeFailed,
                   faults>>
    /\ UNCHANGED <<parVars, fnVars, dtVars, client, pc, turn, messages, responses, requests, jobs,
                   result, error>>

\* ------------------------------------------------------------------- Next
Next ==
    \/ \E r \in PlannerResponses : PlannerRespond(r)
    \/ PlannerFails
    \/ ComputeReturn
    \/ FinalReturn
    \/ ExecSetup
    \/ ExecRun
    \/ ExecWait
    \/ ExecLogs
    \/ ExecExcept
    \/ ExecFinally
    \/ ExecCollect
    \/ ExecMove
    \/ ExecCleanup

Spec == Init /\ [][Next]_vars

\* ------------------------------------------------------ concurrent calls
\* Two calls of interpret on the module's one `interpreter` object, their
\* steps interleaved. Each call has its locals (sess[s]); the client, the
\* host's temporary directories and the results directory are shared.
Sessions == {1, 2}

\* output_name values: path components, each a sequence of characters
NameA == << <<"a">> >>
NameB == << <<"b">> >>
NameA1 == << <<"a", "_", "1">> >>
NameDotA == << <<".">>, <<"a">> >>
OutputNames == {NameA, NameB, NameA1, NameDotA}

\* results_dir = os.path.abspath(os.path.join(os.path.dirname(__file__),
\*                                            "results"))
results_path == << <<"results">> >>

\* os.path.join(results_dir, output_name), for a relative output_name
os_path_join(dir, name) == dir \o name
\* output_dir = os.path.dirname(output_path)
dirname(p) == SubSeq(p, 1, Len(p) - 1)
\* output_prefix = os.path.basename(output_path)
basename(p) == Last(p)
\* the decimal digits of f"{idx}"
DigitToks(i) == [k \in 1..Len(Digits(i)) |-> ToString(Digits(i)[k])]

Dest_noprefix(output_path, idx) ==
    Append(dirname(output_path),
           <<"output", "_">> \o DigitToks(idx) \o <<".png">>)

\* dest = os.path.join(output_dir, f"{output_prefix}_{idx}.png")
Dest(output_path, idx) ==
    Append(dirname(output_path),
           basename(output_path) \o <<"_">> \o DigitToks(idx) \o <<".png">>)

\* The file shutil.move(src, dest) writes: the path with its "." components
\* resolved.
IsNotDot(c) == c # <<".">>
FileOf(p) == SelectSeq(p, IsNotDot)

ParMsg(role, kind, r, t, by) ==
    [role |-> role, kind |-> kind, r |-> r, turn |-> t, by |-> by]

\* The locals of one call on entry to the turn loop.
NewSession(s, name) ==
    [output_name |-> name, pc |-> "ask", turn |-> 1,
     messages |-> <<ParMsg("system", "system_prompt", "", 0, s),
                    ParMsg("user", "context", "", 0, s)>>,
     responses |-> <<>>, xmode |-> "", xpc |-> "idle", temp_dir |-> 0,
     figs |-> 0, saved |-> <<>>, generated_images |-> <<>>, xret |-> NoRet,
     charts |-> <<>>, error |-> NoError]

oneVars == <<pc, turn, messages, responses, requests, jobs, result, error,
             xpc, xmode, script, temp, container, res, exc, xraise, xret,
             out_dir, saved, generated_images, results_dir, hostContainers,
             removeFailed, faults>>

ParInit ==
    /\ client \in BOOLEAN
    /\ \E name \in OutputNames :
          sess = [s \in Sessions |->
                    NewSession(s, IF s = 1 THEN NameA ELSE name)]
    /\ tmpdirs = {}
    /\ tmpfiles = {}
    /\ results = {}
    /\ written = {}
    /\ pc = "idle" /\ turn = 0 /\ messages = <<>> /\ responses = <<>>
    /\ requests = 0 /\ jobs = <<>> /\ result = NoReport /\ error = NoError
    /\ xpc = "idle" /\ xmode = "" /\ script = <<>> /\ temp = {}
    /\ container = 0 /\ res = NoRes /\ exc = NoExc /\ xraise = NoExc
    /\ xret = NoRet /\ out_dir = {} /\ saved = <<>>
    /\ generated_images = <<>> /\ results_dir = {} /\ hostContainers = {}
    /\ removeFailed = {} /\ faults = 0
    /\ NoCall
    /\ NoThinking

Owner_shared(s) == 1

\* `messages` is a local variable of the call that appends to it
Owner(s) == s

\* The two appends of a turn and the loop's next iteration, or the raise
\* after the loop.
ParContinue(s, r, reply) ==
    [sess EXCEPT
        ![Owner(s)].messages =
            @ \o <<ParMsg("assistant", "response", r, 0, s), reply>>,
        ![s].turn = @ + 1,
        ![s].pc = IF LoopExhausted(sess[s].turn) THEN "raised" ELSE "ask",
        ![s].error = IF LoopExhausted(sess[s].turn) THEN TurnLimitError ELSE @]

\* The planner's answers in the concurrent runs: a compute and a final action,
\* both with code.
ParResponses == {"compute", "final_1"}

\* One planner request and its decoding, up to the entry of execute /
\* execute_compute (`if not self.client`) or the corrective turn.
ParRespond(s, r) ==
    /\ sess[s].pc = "ask"
    /\ LET action == ActionOf(_parse_json(response_text(r)).v).action
           answered == [sess EXCEPT ![s].responses = Append(@, r)]
       IN  IF action \in {"compute", "final"}
           THEN sess' = [answered EXCEPT
                    ![s].pc = "job",
                    ![s].xmode = IF action = "final" THEN "plot" ELSE "compute",
                    ![s].xpc = IF client THEN "start" ELSE "done",
                    ![s].xret = IF client THEN NoRet
                                ELSE RetText(FALSE, Unavailable)]
           ELSE sess' = [ParContinue(s, r,
                                     ParMsg("user", "corrective", "", 0, s))
                            EXCEPT ![s].responses = Append(@, r)]
    /\ UNCHANGED <<tmpdirs, tmpfiles, results, written>>
    /\ UNCHANGED <<client, oneVars, fnVars, dtVars>>

mkdtemp_fixed(existing) == 1

\* tempfile.TemporaryDirectory(): a directory under a name not in use
mkdtemp(existing) ==
    CHOOSE d \in 1..(Cardinality(existing) + 1) : d \notin existing

\* with tempfile.TemporaryDirectory() as temp_dir: in, out, data, run.py and
\* the container with these mounted.
ParStart(s) ==
    /\ sess[s].xpc = "start"
    /\ LET d == mkdtemp(tmpdirs)
       IN  /\ sess' = [sess EXCEPT ![s].temp_dir = d, ![s].xpc = "wait"]
           /\ tmpdirs' = tmpdirs \cup {d}
    /\ UNCHANGED <<tmpfiles, results, written>>
    /\ UNCHANGED <<client, oneVars, fnVars, dtVars>>

\* container.wait and logs: the script has run in the container, a plot
\* script that ran to its end has saved its n figures into the mounted out
\* directory.
ParWait(s) ==
    /\ sess[s].xpc = "wait"
    /\ \E ok \in BOOLEAN, n \in 0..MaxFigures :
          LET plot == sess[s].xmode = "plot"
          IN  /\ plot \/ ok
              /\ n = 0 \/ (plot /\ ok)
              /\ tmpfiles' = tmpfiles \cup
                     {[dir |-> sess[s].temp_dir, name |-> FooterName(i),
                       by |-> s] : i \in 1..n}
              /\ sess' = [sess EXCEPT
                     ![s].figs = n,
                     ![s].xret =
                         IF ~ok
                         THEN RetText(FALSE, ExecFailed(1, <<Seg("out", 40)>>))
                         ELSE IF plot THEN NoRet
                         ELSE RetText(TRUE, <<Seg("out", 40)>>),
                     ![s].xpc = IF plot /\ ok THEN "collect" ELSE "cleanup"]
    /\ UNCHANGED <<tmpdirs, results, written>>
    /\ UNCHANGED <<client, oneVars, fnVars, dtVars>>

\* saved = sorted([f for f in os.listdir(out_dir) if ...])
ParCollect(s) ==
    /\ sess[s].xpc = "collect"
    /\ LET listing == Sorted({f \in tmpfiles :
                                 f.dir = sess[s].temp_dir /\ Matches(f.name)})
       IN  sess' = [sess EXCEPT
               ![s].saved = listing,
               ![s].generated_images = <<>>,
               ![s].xret = IF listing = <<>> THEN RetImages(<<>>) ELSE @,
               ![s].xpc = IF listing = <<>> THEN "cleanup" ELSE "move"]
    /\ UNCHANGED <<tmpdirs, tmpfiles, results, written>>
    /\ UNCHANGED <<client, oneVars, fnVars, dtVars>>

\* One iteration of the move loop; after the last, return True, images.
ParMove(s) ==
    /\ sess[s].xpc = "move"
    /\ LET f == Head(sess[s].saved)
           output_path == os_path_join(results_path, sess[s].output_name)
           dest == Dest(output_path, Len(sess[s].generated_images) + 1)
           images == Append(sess[s].generated_images, dest)
           rest == Tail(sess[s].saved)
       IN  /\ tmpfiles' = tmpfiles \ {f}
           /\ results' = {g \in results : g.file # FileOf(dest)}
                             \cup {[file |-> FileOf(dest), by |-> s,
                                    made |-> f.by]}
           /\ written' = written \cup {[file |-> FileOf(dest), by |-> s]}
           /\ sess' = [sess EXCEPT
                  ![s].saved = rest,
                  ![s].generated_images = images,
                  ![s].xret = IF rest = <<>> THEN RetImages(images) ELSE @,
                  ![s].xpc = IF rest = <<>> THEN "cleanup" ELSE "move"]
    /\ UNCHANGED tmpdirs
    /\ UNCHANGED <<client, oneVars, fnVars, dtVars>>

\* Leaving the with-block: the temporary directory and all in it are removed.
ParCleanup(s) ==
    /\ sess[s].xpc = "cleanup"
    /\ tmpdirs' = tmpdirs \ {sess[s].temp_dir}
    /\ tmpfiles' = {f \in tmpfiles : f.dir # sess[s].temp_dir}
    /\ sess' = [sess EXCEPT ![s].xpc = "done"]
    /\ UNCHANGED <<results, written>>
    /\ UNCHANGED <<client, oneVars, fnVars, dtVars>>

\* The call of execute / execute_compute returns into the turn loop.
ParReturn(s) ==
    /\ sess[s].pc = "job"
    /\ sess[s].xpc = "done"
    /\ LET ret == sess[s].xret
           after ==
               IF sess[s].xmode = "compute"
               THEN ParContinue(s, Last(sess[s].responses),
                                ParMsg("user", "output", "", sess[s].turn, s))
               ELSE IF PlotFailed(ret)
               THEN [sess EXCEPT
                        ![s].pc = "raised",
                        ![s].error = Error("RuntimeError",
                                           "Chart code execution failed",
                                           ret.text)]
               ELSE [sess EXCEPT ![s].pc = "returned",
                                 ![s].charts = ret.images]
       IN  sess' = [after EXCEPT
               ![s].xpc = "idle", ![s].xmode = "", ![s].temp_dir = 0,
               ![s].saved = <<>>, ![s].generated_images = <<>>,
               ![s].xret = NoRet]
    /\ UNCHANGED <<tmpdirs, tmpfiles, results, written>>
    /\ UNCHANGED <<client, oneVars, fnVars, dtVars>>

ParNext ==
    \/ \E s \in Sessions, r \in ParResponses : ParRespond(s, r)
    \/ \E s \in Sessions : ParStart(s)
    \/ \E s \in Sessions : ParWait(s)
    \/ \E s \in Sessions : ParCollect(s)
    \/ \E s \in Sessions : ParMove(s)
    \/ \E s \in Sessions : ParCleanup(s)
    \/ \E s \in Sessions : ParReturn(s)

SpecPar == ParInit /\ [][ParNext]_vars

\* ------------------------------------------- one Plot job, any user code
\* execute for the chart code of a final action at turn 1, where the chart
\* code itself may also write files into its working directory /out.
PlotInit ==
    /\ client = TRUE
    /\ pc = "final"
    /\ turn = 1
    /\ messages = <<SystemMsg, ContextMsg>>
    /\ responses = <<"final_1">>
    /\ requests = 1
    /\ jobs = <<Job("plot", 1)>>
    /\ result = NoReport
    /\ error = NoError
    /\ xpc = "setup"
    /\ xmode = "plot"
    /\ script = _instrument_code(_extract_code(ChartCode.toks).code, TRUE)
    /\ temp = {}
    /\ container = 0
    /\ res = NoRes
    /\ exc = NoExc
    /\ xraise = NoExc
    /\ xret = NoRet
    /\ out_dir = {}
    /\ saved = <<>>
    /\ generated_images = <<>>
    /\ results_dir = {}
    /\ hostContainers = {}
    /\ removeFailed = {}
    /\ faults = 0
    /\ NoSessions
    /\ NoCall
    /\ NoThinking

\* Names the user code may save under (savefig with a relative name lands in
\* the working directory /out): two that match the collection pattern, one
\* of them the footer's first name, and one that does not match.
UserNames == {[pre |-> "output_", mid |-> <<0>>, ext |-> ".png"],
              FooterName(1),
              [pre |-> "chart_", mid |-> <<1>>, ext |-> ".png"]}

\* /out when the script ends: the user's files, then the footer's, which
\* replace a user's file of the same name. fig 0 marks a user's file.
Written(r, n, U) ==
    LET auto == Produced(r, n)
    IN  auto \cup {File(u, 0) : u \in {v \in U : \A f \in auto : f.name # v}}

\* res = container.wait(timeout=self.timeout_s), the script having written
\* its own files as well
ExecWaitUser ==
    /\ xpc = "wait"
    /\ \/ \E r \in WaitResults, n \in 0..MaxFigures, U \in SUBSET UserNames :
             /\ n = 0 \/ Produced(r, n) # {}
             /\ res' = r
             /\ hostContainers' = SetState(hostContainers, container, "exited")
             /\ out_dir' = Written(r, n, U)
             /\ xpc' = "logs"
             /\ UNCHANGED <<exc, faults>>
       \/ /\ exc' = Seg("Read timed out.", 15)
          /\ xpc' = "except"
          /\ UNCHANGED <<res, hostContainers, out_dir, faults>>
       \/ /\ Fault
          /\ exc' = Seg("500 Server Error", 16)
          /\ xpc' = "except"
          /\ UNCHANGED <<res, hostContainers, out_dir>>
    /\ UNCHANGED <<xmode, script, temp, container, xraise, xret, saved,
                   generated_images, results_dir, removeFailed>>
    /\ UNCHANGED <<parVars, fnVars, dtVars, client, pc, turn, messages, responses, requests,
                   jobs, result, error>>

PlotNext ==
    \/ ExecSetup
    \/ ExecRun
    \/ ExecWaitUser
    \/ ExecLogs
    \/ ExecExcept
    \/ ExecFinally
    \/ ExecCollect
    \/ ExecMove
    \/ ExecCleanup
    \/ FinalReturn

SpecPlot == PlotInit /\ [][PlotNext]_vars

\* ---------------------------------------------- helper functions on their own
\* The session, the executor and the concurrent calls at rest.
Idle ==
    /\ client = FALSE
    /\ pc = "idle" /\ turn = 0 /\ messages = <<>> /\ responses = <<>>
    /\ requests = 0 /\ jobs = <<>> /\ result = NoReport /\ error = NoError
    /\ xpc = "idle" /\ xmode = "" /\ script = <<>> /\ temp = {}
    /\ container = 0 /\ res = NoRes /\ exc = NoExc /\ xraise = NoExc
    /\ xret = NoRet /\ out_dir = {} /\ saved = <<>>
    /\ generated_images = <<>> /\ results_dir = {} /\ hostContainers = {}
    /\ removeFailed = {} /\ faults = 0
    /\ NoSessions

idleVars == <<client, oneVars, parVars>>

Out(v) == [set |-> TRUE, v |-> v]

\* Lengths of the texts execute_compute may return, around the limit.
TruncLens == {0, 1, 7, 18, 40, 5960, 5967, 5975, 5983, 5993, 5994, 5999,
              6000, 6001, 6018, 7000}

\* (success, output) as execute_compute returns them: the stripped logs on
\* success; one of the three failure texts otherwise.
TruncCalls ==
    {[fn |-> "truncate", success |-> TRUE, output |-> <<Seg("out", n)>>] :
        n \in TruncLens}
    \cup {[fn |-> "truncate", success |-> TRUE,
           output |-> <<Seg("out", n), Seg("more", 1)>>] : n \in TruncLens}
    \cup {[fn |-> "truncate", success |-> FALSE,
           output |-> ExecFailed(1, <<Seg("log", n)>>)] : n \in TruncLens}
    \cup {[fn |-> "truncate", success |-> FALSE,
           output |-> ExecError(Seg("e", n))] : n \in TruncLens}
    \cup {[fn |-> "truncate", success |-> FALSE, output |-> Unavailable]}

TruncInit ==
    /\ Idle
    /\ fin \in TruncCalls
    /\ fout = NoOut
    /\ NoThinking

\* output_text = output if success else f"ERROR: {output}"
\* output_text = self._truncate_output(output_text)
ApplyTruncate ==
    /\ fin.fn = "truncate"
    /\ fout = NoOut
    /\ fout' = Out(_truncate_output(OutputText(fin.success, fin.output)))
    /\ UNCHANGED <<fin, idleVars, dtVars>>

TruncNext == ApplyTruncate

SpecTrunc == TruncInit /\ [][TruncNext]_vars

\* User code handed to _instrument_code: any text, tokens of the header and
\* of the footer included.
MaxCodeLen == 3

CodeToks == {"calc", "NL", "import matplotlib", "try savefig open figures"}

RECURSIVE SeqsUpTo(_, _)
SeqsUpTo(S, n) ==
    IF n = 0 THEN {<<>>}
    ELSE LET shorter == SeqsUpTo(S, n - 1)
         IN  shorter \cup {Append(q, x) : q \in shorter, x \in S}

InstrCalls ==
    {[fn |-> "instrument", code |-> c, autosave |-> a] :
        c \in SeqsUpTo(CodeToks, MaxCodeLen), a \in BOOLEAN}

InstrInit ==
    /\ Idle
    /\ fin \in InstrCalls
    /\ fout = NoOut
    /\ NoThinking

\* script = self._instrument_code(code, autosave=...)
ApplyInstrument ==
    /\ fin.fn = "instrument"
    /\ fout = NoOut
    /\ fout' = Out(_instrument_code(fin.code, fin.autosave))
    /\ UNCHANGED <<fin, idleVars, dtVars>>

InstrNext == ApplyInstrument

SpecInstr == InstrInit /\ [][InstrNext]_vars

\* Planner fields handed to _extract_code: any text of fences, line breaks,
\* escaped line breaks and code.
MaxTextLen == 5

TextToks == {"FENCE", "FENCE_PY", "NL", "ESC", "calc"}

ExtractCalls ==
    {[fn |-> "extract", text |-> t] : t \in SeqsUpTo(TextToks, MaxTextLen)}

ExtractInit ==
    /\ Idle
    /\ fin \in ExtractCalls
    /\ fout = NoOut
    /\ NoThinking

\* code = self._extract_code(payload.get("code", ""))
ApplyExtract ==
    /\ fin.fn = "extract"
    /\ fout = NoOut
    /\ fout' = Out(_extract_code(fin.text))
    /\ UNCHANGED <<fin, idleVars, dtVars>>

ExtractNext == ApplyExtract

SpecExtract == ExtractInit /\ [][ExtractNext]_vars

\* ------------------------------------------------ a Plot job, many figures
\* Most figures the code of the job leaves open here.
ManyFigures == 11

\* The job of a final response with two figure entries, right after its
\* dispatch.
ManyInit ==
    /\ client = TRUE
    /\ pc = "final"
    /\ turn = 1
    /\ messages = <<SystemMsg, ContextMsg>>
    /\ responses = <<"final_2">>
    /\ requests = 1
    /\ jobs = <<Job("plot", 1)>>
    /\ result = NoReport
    /\ error = NoError
    /\ xpc = "setup"
    /\ xmode = "plot"
    /\ script = _instrument_code(
                    _extract_code(
                        _parse_json(response_text("final_2")).v.chart_code.toks
                    ).code, TRUE)
    /\ temp = {}
    /\ container = 0
    /\ res = NoRes
    /\ exc = NoExc
    /\ xraise = NoExc
    /\ xret = NoRet
    /\ out_dir = {}
    /\ saved = <<>>
    /\ generated_images = <<>>
    /\ results_dir = {}
    /\ hostContainers = {}
    /\ removeFailed = {}
    /\ faults = 0
    /\ NoSessions
    /\ NoCall
    /\ NoThinking

\* res = container.wait(timeout=self.timeout_s), the footer having saved
\* output_1.png .. output_n.png
ExecWaitMany ==
    /\ xpc = "wait"
    /\ \/ \E r \in WaitResults, n \in 0..ManyFigures :
             /\ n = 0 \/ Produced(r, n) # {}
             /\ res' = r
             /\ hostContainers' = SetState(hostContainers, container, "exited")
             /\ out_dir' = Produced(r, n)
             /\ xpc' = "logs"
             /\ UNCHANGED <<exc, faults>>
       \/ /\ exc' = Seg("Read timed out.", 15)
          /\ xpc' = "except"
          /\ UNCHANGED <<res, hostContainers, out_dir, faults>>
       \/ /\ Fault
          /\ exc' = Seg("500 Server Error", 16)
          /\ xpc' = "except"
          /\ UNCHANGED <<res, hostContainers, out_dir>>
    /\ UNCHANGED <<xmode, script, temp, container, xraise, xret, saved,
                   generated_images, results_dir, removeFailed>>
    /\ UNCHANGED <<parVars, fnVars, dtVars, client, pc, turn, messages,
                   responses, requests, jobs, result, error>>

ManyNext ==
    \/ ExecSetup
    \/ ExecRun
    \/ ExecWaitMany
    \/ ExecLogs
    \/ ExecExcept
    \/ ExecFinally
    \/ ExecCollect
    \/ ExecMove
    \/ ExecCleanup
    \/ FinalReturn

SpecMany == ManyInit /\ [][ManyNext]_vars

\* ------------------------------------------------------ DeepThinkAgent.think
\* Most iterations of one think call (the constructor's max_iterations).
max_iterations == 3

available_tools == {"web_search"}

\* An LLM response as the patterns of _parse_llm_response read it: a
\* sequence of blocks. A ready_to_answer block has the text of its
\* confidence attribute ("" when it has none) and its body; an action block
\* has its payload.
Thinking == [tag |-> "thinking", conf |-> "", body |-> "thought"]
Ready(conf, body) == [tag |-> "ready", conf |-> conf, body |-> body]
Action(payload) == [tag |-> "action", conf |-> "", body |-> payload]

\* [\d.]+ : digits and dots only, at least one.
ConfMatches(conf) == conf \in {"0.95", "1.2.3"}
\* float(conf) succeeds.
IsFloat(conf) == conf = "0.95"

\* json.loads(action_str) of the payloads used.
ActionJson(payload) ==
    CASE payload = "web_search" -> [k |-> "object", tool |-> "web_search"]
      [] payload = "other_tool" -> [k |-> "object", tool |-> "other_tool"]
      [] payload = "{}"         -> [k |-> "object", tool |-> "None"]
      [] payload = "[1]"        -> [k |-> "array", tool |-> "None"]
      [] OTHER                  -> [k |-> "invalid", tool |-> "None"]

FirstAt(blocks, P(_)) ==
    IF \E i \in 1..Len(blocks) : P(blocks[i])
    THEN SetMin({i \in 1..Len(blocks) : P(blocks[i])})
    ELSE 0

IsThinkingBlock(b) == b.tag = "thinking"
IsReadyMatch(b) == b.tag = "ready" /\ ConfMatches(b.conf)
IsActionBlock(b) == b.tag = "action"

Parsed(err, thought, is_final, final_answer, confidence, tool_name, action_str) ==
    [err |-> err, thought |-> thought, is_final |-> is_final,
     final_answer |-> final_answer, confidence |-> confidence,
     tool_name |-> tool_name, action_str |-> action_str]

_parse_llm_response(response) ==
    LET t == FirstAt(response, IsThinkingBlock)
        r == FirstAt(response, IsReadyMatch)
        a == FirstAt(response, IsActionBlock)
        thought == IF t # 0 THEN response[t].body ELSE ""
    IN  IF r # 0
        THEN IF IsFloat(response[r].conf)
             THEN Parsed("", thought, TRUE, response[r].body,
                         response[r].conf, "None", "None")
             ELSE Parsed("ValueError", thought, FALSE, "", "0.0", "None", "None")
        ELSE IF a # 0
             THEN LET action_str == response[a].body
                      action_obj == ActionJson(action_str)
                  IN  CASE action_obj.k = "object" ->
                               Parsed("", thought, FALSE, "", "0.0",
                                      action_obj.tool, action_str)
                        [] action_obj.k = "invalid" ->
                               Parsed("", thought, FALSE, "", "0.0",
                                      "None", action_str)
                        [] OTHER ->
                               Parsed("AttributeError", thought, FALSE, "",
                                      "0.0", "None", "None")
             ELSE Parsed("", thought, FALSE, "", "0.0", "None", "None")

_get_next_step_prompt(iteration) ==
    IF iteration > 8 THEN "consolidate"
    ELSE IF iteration > 5 THEN "scan" ELSE "continue"

\* What one LLM request can come back with.
LLMResponses ==
    { <<Thinking, Ready("0.95", "Ans")>>,
      <<Ready("0.95", "")>>,
      <<Thinking, Ready("1.2.3", "Ans")>>,
      <<Thinking, Ready("", "Ans")>>,
      <<Action("web_search"), Ready("0.95", "Ans")>>,
      <<Thinking, Action("web_search")>>,
      <<Action("other_tool")>>,
      <<Action("not json")>>,
      <<Action("{}")>>,
      <<Action("[1]")>>,
      <<Action("")>>,
      <<Thinking>>,
      <<>> }

LLMOutcomes ==
    {[raised |-> FALSE, blocks |-> r] : r \in LLMResponses}
    \cup {[raised |-> TRUE, blocks |-> <<>>]}

ThinkingStep(iteration, thought, action, action_result, status) ==
    [iteration |-> iteration, thought |-> thought, action |-> action,
     action_result |-> action_result, status |-> status]

NoStep == ThinkingStep(0, "", "None", "None", "")
NoThinkResult == [set |-> FALSE]

ThinkMsg(role, content) == [role |-> role, content |-> content]

\* The locals of think before the loop (lines 61-77).
ThinkInit ==
    /\ Idle
    /\ NoCall
    /\ dt = [pc |-> "loop", iteration |-> 0,
             messages |-> <<ThinkMsg("system", <<"system_prompt">>),
                            ThinkMsg("user", <<"User Query">>)>>,
             thinking_steps |-> <<>>, tools_used |-> <<>>,
             final_answer |-> "", confidence |-> "0.0",
             current_step |-> NoStep, response_text |-> <<>>,
             tool_name |-> "None",
             requests |-> 0, responses |-> <<>>, callback_errors |-> FALSE,
             returned |-> NoThinkResult]

dtFrame == <<client, oneVars, parVars, fnVars>>

\* _safe_callback: an error of the callback is logged and swallowed.
Notified(d, cb) == [d EXCEPT !.callback_errors = @ \/ cb]

\* while iteration < self.max_iterations: iteration += 1; a new step; the
\* start notification.
DTIterate ==
    /\ dt.pc = "loop"
    /\ dt.iteration < max_iterations
    /\ \E cb \in BOOLEAN :
           dt' = Notified([dt EXCEPT
                     !.pc = "request",
                     !.iteration = @ + 1,
                     !.current_step =
                         ThinkingStep(dt.iteration + 1, "", "None", "None",
                                      "thinking")], cb)
    /\ UNCHANGED dtFrame

\* except Exception as e: the step is recorded as an error and the loop
\* goes on.
OnError(d, e) ==
    LET step == [d.current_step EXCEPT !.status = "error", !.thought = e]
    IN  [d EXCEPT !.current_step = step,
                  !.thinking_steps = Append(@, step),
                  !.pc = "loop"]

WithHistory(d, text, reply) ==
    [d EXCEPT !.messages = @ \o <<ThinkMsg("assistant", text),
                                   ThinkMsg("user", reply)>>]

\* The step already appended to thinking_steps is the object current_step.
SetResult(d, action_result) ==
    LET step == [d.current_step EXCEPT !.action_result = action_result,
                                       !.status = "analyzing"]
    IN  [d EXCEPT !.current_step = step,
                  !.thinking_steps = [@ EXCEPT ![Len(@)] = step]]

Truthy(str) == str \notin {"", "None"}

\* if parsed.get("is_final")
Stops(parsed) == parsed.is_final

\* The LLM request of one iteration, the parse of its response and the
\* branch taken on it, up to the tool call.
DTRequest(o) ==
    /\ dt.pc = "request"
    /\ \E cb \in BOOLEAN :
        LET asked == [dt EXCEPT !.requests = @ + 1,
                                !.responses = Append(@, o),
                                !.response_text = o.blocks]
            parsed == _parse_llm_response(o.blocks)
            step == [asked.current_step EXCEPT !.thought = parsed.thought,
                                               !.action = parsed.action_str]
        IN  dt' = Notified(
              IF o.raised THEN OnError(asked, "LLMError")
              ELSE IF parsed.err # "" THEN OnError(asked, parsed.err)
              ELSE IF Stops(parsed)
              THEN [asked EXCEPT
                       !.final_answer = parsed.final_answer,
                       !.confidence = parsed.confidence,
                       !.current_step = [step EXCEPT !.status = "done"],
                       !.thinking_steps =
                           Append(@, [step EXCEPT !.status = "done"]),
                       !.pc = "exit"]
              ELSE IF Truthy(step.action)
              THEN LET called == [asked EXCEPT
                          !.current_step =
                              [step EXCEPT !.status = "calling_tool"],
                          !.thinking_steps =
                              Append(@, [step EXCEPT !.status = "calling_tool"]),
                          !.tool_name = parsed.tool_name]
                   IN  IF parsed.tool_name \notin available_tools
                       THEN [WithHistory(SetResult(called, "Error: not available"),
                                         o.blocks, <<"Tool Output", "Error: not available">>)
                                EXCEPT !.pc = "loop"]
                       ELSE [called EXCEPT !.pc = "tool"]
              ELSE [WithHistory([asked EXCEPT
                                    !.current_step = step,
                                    !.thinking_steps = Append(@, step)],
                                o.blocks,
                                <<_get_next_step_prompt(asked.iteration)>>)
                       EXCEPT !.pc = "loop"], cb)
    /\ UNCHANGED dtFrame

\* result = await self.tool_executor(tool_name, tool_params), or its error.
DTTool(ok) ==
    /\ dt.pc = "tool"
    /\ \E cb \in BOOLEAN :
        LET action_result == IF ok THEN "result" ELSE "Error executing tool"
            used == IF \E i \in 1..Len(dt.tools_used) :
                           dt.tools_used[i] = dt.tool_name
                    THEN dt.tools_used
                    ELSE Append(dt.tools_used, dt.tool_name)
        IN  dt' = Notified(
                    [WithHistory(SetResult([dt EXCEPT !.tools_used = used],
                                           action_result),
                                 dt.response_text,
                                 <<"Tool Output", action_result>>)
                        EXCEPT !.pc = "loop"], cb)
    /\ UNCHANGED dtFrame

Fallback == "I could not generate a definitive answer after deep thinking."

DeepThinkResult(d) ==
    [set |-> TRUE,
     final_answer |-> IF d.final_answer # "" THEN d.final_answer ELSE Fallback,
     thinking_steps |-> d.thinking_steps,
     total_iterations |-> d.iteration,
     tools_used |-> d.tools_used,
     confidence |-> d.confidence,
     thinking_summary |->
         [steps |-> Len(d.thinking_steps),
          tool_calls |-> Cardinality({i \in 1..Len(d.thinking_steps) :
                                         Truthy(d.thinking_steps[i].action)})]]

\* After the loop, ended by its condition or by break.
DTReturn ==
    /\ \/ dt.pc = "exit"
       \/ dt.pc = "loop" /\ ~(dt.iteration < max_iterations)
    /\ dt' = [dt EXCEPT !.pc = "done", !.returned = DeepThinkResult(dt)]
    /\ UNCHANGED dtFrame

ThinkNext ==
    \/ DTIterate
    \/ \E o \in LLMOutcomes : DTRequest(o)
    \/ \E ok \in BOOLEAN : DTTool(ok)
    \/ DTReturn

SpecThink == ThinkInit /\ [][ThinkNext]_vars

\* ------------------------------------------------------------ the data area
\* Most input files of one job.
MaxFiles == 2

HostPath(dir, base) == [dir |-> dir, base |-> base]

\* Host paths an analysis may be given; the content of a file is named by
\* its path.
HostPaths == {HostPath(d, b) : d \in {"/a", "/b"}, b \in {"x.csv", "y.csv"}}

DataFile(name, content) == [name |-> name, content |-> content]

\* docker_path = f"/data/{os.path.basename(file_path)}": where the planner
\* is told to read the file
docker_path(file_path) == file_path.base

\* One job: its data_files and the paths that exist on the host.
DataCalls ==
    {[fn |-> "data", data_files |-> fs, host |-> h] :
        fs \in SeqsUpTo(HostPaths, MaxFiles), h \in SUBSET HostPaths}

\* data_dir right after os.makedirs(data_dir, exist_ok=True)
DataInit ==
    /\ Idle
    /\ NoThinking
    /\ fin \in DataCalls
    /\ fout = [set |-> FALSE, next |-> 1, data_dir |-> {}]

\* shutil.copy(fp, data_dir): the copy is data_dir/basename(fp) and
\* replaces a file of that name.
copy(fp, data_dir) ==
    {f \in data_dir : f.name # fp.base} \cup {DataFile(fp.base, fp)}

\* One pass of `for fp in data_files`: the copy of an existing file, which
\* may fail (the error is logged and the loop goes on).
CopyDataFile(ok) ==
    /\ fin.fn = "data"
    /\ ~fout.set
    /\ fout.next <= Len(fin.data_files)
    /\ LET fp == fin.data_files[fout.next]
       IN  fout' = [fout EXCEPT
                       !.next = @ + 1,
                       !.data_dir = IF fp \in fin.host /\ ok
                                    THEN copy(fp, @) ELSE @]
    /\ UNCHANGED <<fin, idleVars, dtVars>>

\* containers.run(...) with data_dir mounted read-only at /data
StartContainer ==
    /\ fin.fn = "data"
    /\ ~fout.set
    /\ fout.next > Len(fin.data_files)
    /\ fout' = [fout EXCEPT !.set = TRUE]
    /\ UNCHANGED <<fin, idleVars, dtVars>>

DataNext ==
    \/ \E ok \in BOOLEAN : CopyDataFile(ok)
    \/ StartContainer

SpecData == DataInit /\ [][DataNext]_vars

\* ----------------------------------------------------------------- claims
\* Planner responses by what they are, independently of the decoder.
Undecodable == {"prose", "fenced_prose"}
NotAnAction == {"other", "noaction", "array", "numaction"}
Malformed == Undecodable \cup NotAnAction
FinalWithoutChart == {"final_nochart", "final_emptychart"}

Terminal == pc \in {"returned", "raised"}
PlannerAnswered == requests = Len(responses)
JobsOfTurn(t) == {j \in 1..Len(jobs) : jobs[j].turn = t}
PlotJobs == {j \in 1..Len(jobs) : jobs[j].mode = "plot"}

\* C1: when every planner response is Malformed, the session makes exactly
\* max_interactive_turns requests, appends one corrective turn after each
\* response, and fails with the turn-limit error only then.
C1_MalformedRunsToTurnLimit ==
    (PlannerAnswered /\ \A i \in 1..Len(responses) : responses[i] \in Malformed)
    => /\ requests <= max_interactive_turns
       /\ Len(messages) = 2 + 2 * Len(responses)
       /\ \A i \in 1..Len(responses) : messages[2 + 2 * i] = CorrectiveMsg
       /\ pc \in {"ask", "raised"}
       /\ pc = "raised"
             => error = TurnLimitError /\ requests = max_interactive_turns

\* C2: a response that does not decode as JSON is answered with a corrective
\* turn: the assistant and corrective messages are appended, the turn counter
\* moves on, and the response alone raises nothing to the caller.
C2_UndecodableIsCorrected ==
    \A i \in 1..Len(responses) :
        responses[i] \in Undecodable
        => /\ Len(messages) >= 2 + 2 * i
           /\ messages[1 + 2 * i] = AssistantMsg(responses[i])
           /\ messages[2 + 2 * i] = CorrectiveMsg
           /\ turn >= i + 1
           /\ error.msg # "Invalid JSON from LLM"

\* C3: a final action with empty or absent chart code ends the session with
\* the missing-chart-code error: no job is dispatched in that turn, nothing
\* is appended to the history, no report exists and the planner is not asked
\* again.
C3_FinalWithoutChartCode ==
    \A i \in 1..Len(responses) :
        responses[i] \in FinalWithoutChart
        => /\ i = Len(responses)
           /\ requests = i
           /\ pc = "raised"
           /\ error = MissingCodeError("chart_code")
           /\ JobsOfTurn(i) = {}
           /\ xpc = "idle"
           /\ Len(messages) = 2 + 2 * (i - 1)
           /\ result = NoReport

\* C3 witness: an empty chart code arrives after a compute turn, with turns
\* remaining, and the session has ended.
C3_Witness ==
    /\ Len(responses) = 2
    /\ responses[1] = "compute"
    /\ responses[2] = "final_emptychart"
    /\ pc = "raised"
    /\ Len(jobs) = 1

RunEnded == xpc \in {"done", "idle"}
ExitZero == res.got /\ res.has /\ res.code = 0

C5_FailedPlotEndsSession ==
    \A j \in 1..Len(jobs) :
        (jobs[j].mode = "plot" /\ (jobs[j].raised
                                    \/ (jobs[j].ret.set /\ ~jobs[j].ret.ok)))
        => /\ pc = "raised"
           /\ result = NoReport
           /\ IF jobs[j].raised
              THEN error.type = "OSError"
              ELSE error = Error("RuntimeError", "Chart code execution failed",
                                 jobs[j].ret.text)
           /\ j = Len(jobs)
           /\ PlotJobs = {j}
           /\ requests = jobs[j].turn
           /\ Len(responses) = jobs[j].turn

\* C5 witness: the Plot job of a final action at turn 2 exited non-zero and
\* the session has ended with turns remaining.
C5_Witness ==
    /\ Len(jobs) = 2
    /\ jobs[2].mode = "plot"
    /\ jobs[2].ret.set
    /\ ~jobs[2].ret.ok
    /\ jobs[2].ret.text[1] = Seg("Execution failed (exit=", 23)
    /\ pc = "raised"
    /\ turn = 2

\* C6: a Compute job that returns failure keeps the session negotiating: the
\* response and the failure text, led by the error marker, are appended as
\* the turn's two messages, the turn counter moves on by one, and the planner
\* is asked again unless that was the last turn.
C6_FailedComputeFeedsBack ==
    \A j \in 1..Len(jobs) :
        (jobs[j].mode = "compute" /\ jobs[j].ret.set /\ ~jobs[j].ret.ok)
        => LET t == jobs[j].turn
               full == <<ErrorMarker>> \o jobs[j].ret.text
           IN  /\ Len(messages) >= 2 + 2 * t
               /\ messages[1 + 2 * t] = AssistantMsg(responses[t])
               /\ messages[2 + 2 * t].role = "user"
               /\ messages[2 + 2 * t].kind = "output"
               /\ messages[2 + 2 * t].turn = t
               /\ Head(messages[2 + 2 * t].text) = ErrorMarker
               /\ TextLen(full) <= limit => messages[2 + 2 * t].text = full
               /\ turn >= t + 1
               /\ (Len(responses) = t /\ requests = t)
                     => IF t < max_interactive_turns
                        THEN pc = "ask" /\ turn = t + 1 /\ error = NoError
                        ELSE pc = "raised" /\ error = TurnLimitError

\* C6 witness: the Compute job of turn 1 timed out and the planner is about
\* to be asked for turn 2.
C6_Witness ==
    /\ Len(jobs) = 1
    /\ jobs[1].mode = "compute"
    /\ jobs[1].ret = RetText(FALSE, ExecError(Seg("Read timed out.", 15)))
    /\ pc = "ask"
    /\ turn = 2

FinalPayload == _parse_json(response_text(Last(responses))).v
Figures == FinalPayload.figures
Artifacts == Last(jobs).ret.images
Markdown == result.analysis
IsHeading(sec) == sec.kind = "heading"
IsImage(sec) == sec.kind = "image"
Headings == SelectSeq(Markdown, IsHeading)
Images == SelectSeq(Markdown, IsImage)
HeadingsUpTo(p) == Cardinality({q \in 1..p : IsHeading(Markdown[q])})
ImagesUpTo(p) == Cardinality({q \in 1..p : IsImage(Markdown[q])})
HeadingPos(i) ==
    CHOOSE p \in 1..Len(Markdown) : IsHeading(Markdown[p]) /\ HeadingsUpTo(p) = i

\* C8: the report has, after the summary, one section per declared figure in
\* order; the first min(len(figures), len(artifacts)) carry artifacts[i] as
\* their image right after the heading, the others are text only; a figure's
\* description, when it has one, closes its section.
C8_ReportPairing ==
    pc = "returned"
    => LET pairs == Min2(Len(Figures), Len(Artifacts))
       IN  /\ Len(Headings) = Len(Figures)
           /\ Len(Images) = pairs
           /\ \A i \in 1..Len(Figures) :
                 LET fig == Figures[i]
                     title == IF fig.title = ""
                              THEN "Figure " \o ToString(i) ELSE fig.title
                     hp == HeadingPos(i)
                     dp == hp + (IF i <= pairs THEN 2 ELSE 1)
                 IN  /\ Headings[i].title = title
                     /\ i <= pairs
                           => /\ Markdown[hp + 1] =
                                     Sec("image", title, Artifacts[i], "")
                              /\ Images[i].image = Artifacts[i]
                     /\ i > pairs
                           => (hp = Len(Markdown) \/ ~IsImage(Markdown[hp + 1]))
                     /\ IF fig.description_md \in {"", " "}
                        THEN dp > Len(Markdown) \/ Markdown[dp].kind # "text"
                        ELSE /\ dp <= Len(Markdown)
                             /\ Markdown[dp] =
                                    Sec("text", "", NoPath, fig.description_md)
           /\ \A p \in 1..Len(Markdown) :
                 /\ Markdown[p].kind = "summary" => p = 1
                 /\ IsImage(Markdown[p]) => HeadingsUpTo(p) = ImagesUpTo(p)
           /\ FinalPayload.summary_md \notin {"", " "}
                 => Markdown[1] =
                       Sec("summary", "", NoPath, FinalPayload.summary_md)

\* C8 witness: a report was built from two declared figures and one artifact.
C8_Witness ==
    /\ pc = "returned"
    /\ Len(Figures) = 2
    /\ Len(Artifacts) = 1

\* C9 (as claimed): an artifact beyond the declared figures is referenced
\* nowhere in the returned report, neither in the markdown nor in the chart
\* list, and its file stays in the destination directory.
C9_ExcessArtifactsUnreferenced ==
    pc = "returned"
    => \A k \in (Len(Figures) + 1)..Len(Artifacts) :
          /\ \A p \in 1..Len(Markdown) : Markdown[p].image # Artifacts[k]
          /\ \A q \in 1..Len(result.charts) : result.charts[q] # Artifacts[k]
          /\ \E f \in results_dir : f.name = Artifacts[k]

\* C9 (amended): an artifact beyond the declared figures is not referenced
\* in the report's markdown, but it is listed in the report's chart list,
\* which is the whole artifact list; its file stays in the destination
\* directory.
C9_ExcessArtifactsOnlyInCharts ==
    pc = "returned"
    => /\ result.charts = Artifacts
       /\ \A k \in (Len(Figures) + 1)..Len(Artifacts) :
             /\ \A p \in 1..Len(Markdown) : Markdown[p].image # Artifacts[k]
             /\ \E f \in results_dir : f.name = Artifacts[k]

\* C9 witness: the Plot job returned two artifacts for one declared figure.
C9_Witness ==
    /\ pc = "returned"
    /\ Len(Figures) = 1
    /\ Len(Artifacts) = 2

\* C10: after a valid compute response and then a valid final response that
\* declares one figure, the session has made two planner requests and
\* dispatched one Compute job and then one Plot job; when that Plot job
\* collected exactly one artifact the session returns a report with exactly
\* one section, whose image is that artifact.
C10_ComputeThenFinal ==
    (/\ Len(responses) >= 2
     /\ responses[1] = "compute"
     /\ responses[2] = "final_1"
     /\ Terminal)
    => /\ Len(responses) = 2
       /\ requests = 2
       /\ Len(jobs) = 2
       /\ jobs[1].mode = "compute" /\ jobs[1].turn = 1 /\ jobs[1].ret.set
       /\ jobs[2].mode = "plot" /\ jobs[2].turn = 2
       /\ (jobs[2].ret.ok /\ Len(jobs[2].ret.images) = 1)
             => /\ pc = "returned"
                /\ error = NoError
                /\ Len(Headings) = 1
                /\ Len(Images) = 1
                /\ Images[1].image = Path(output_name, 1)
                /\ result.charts = <<Path(output_name, 1)>>
                /\ File(Path(output_name, 1), 1) \in results_dir

\* C10 witness: that session has returned its one-section report.
C10_Witness ==
    /\ responses = <<"compute", "final_1">>
    /\ pc = "returned"
    /\ jobs[1].ret.ok
    /\ Len(result.charts) = 1

\* C11: without a client, run in either mode returns failure at once with the
\* unavailable text, which no other failure of run begins like, and has made
\* no temporary directory, no script, no container and no destination file.
C11_UnavailableFailsAtOnce ==
    /\ (~client /\ xpc # "idle")
          => /\ xpc = "done"
             /\ xret = RetText(FALSE, Unavailable)
             /\ xraise = NoExc
    /\ ~client
          => /\ temp = {} /\ out_dir = {}
             /\ script = <<>>
             /\ container = 0 /\ hostContainers = {}
             /\ results_dir = {}
             /\ faults = 0
    /\ \A j \in 1..Len(jobs) :
          (jobs[j].ret.set /\ ~jobs[j].ret.ok)
          => IF client
             THEN Head(jobs[j].ret.text) # Head(Unavailable)
             ELSE jobs[j].ret.text = Unavailable

\* C11 witness: without a client a Compute job and then a Plot job have both
\* returned the unavailable failure.
C11_Witness ==
    /\ ~client
    /\ Len(jobs) = 2
    /\ jobs[1].mode = "compute"
    /\ jobs[1].ret = RetText(FALSE, Unavailable)
    /\ jobs[2].mode = "plot"
    /\ xpc = "done"
    /\ xret = RetText(FALSE, Unavailable)

\* What the executor itself puts into a failed outcome: the success flag and
\* the text in front of the logs or of the exception's own message.
Indicator(ret) == <<ret.ok, Head(ret.text)>>
WaitTimeout == Seg("Read timed out.", 15)
TimedOut(job) ==
    job.ret.set /\ ~job.ret.ok /\ Last(job.ret.text) = WaitTimeout
OtherBackendError(job) ==
    /\ job.ret.set /\ ~job.ret.ok
    /\ Last(job.ret.text) \in {Seg("image not found", 15),
                               Seg("500 Server Error", 16),
                               Seg("logs unavailable", 16)}
NonZeroExit(job) ==
    /\ job.ret.set /\ ~job.ret.ok
    /\ Head(job.ret.text) = Seg("Execution failed (exit=", 23)

\* C12: a job whose wait timed out returns a failed outcome whose indicator
\* is its own: it differs from the indicator of a job that exited non-zero
\* and from that of a job that failed with any other backend error.
C12_TimeoutIsDistinct ==
    \A i, j \in 1..Len(jobs) :
        TimedOut(jobs[i])
        => /\ NonZeroExit(jobs[j])
                 => Indicator(jobs[i].ret) # Indicator(jobs[j].ret)
           /\ OtherBackendError(jobs[j])
                 => Indicator(jobs[i].ret) # Indicator(jobs[j].ret)

\* The matching files of the scratch directory, and the scratch name of the
\* file that was moved to the i-th returned path.
Scratch == {f \in out_dir : Matches(f.name)}
MovedTo(i) == CHOOSE f \in results_dir : f.name = generated_images[i]
ScratchOrder ==
    [i \in 1..Len(generated_images) |-> FooterName(MovedTo(i).fig).mid]
        \o [i \in 1..Len(saved) |-> saved[i].name.mid]
PlotCollecting ==
    /\ xmode = "plot"
    /\ xraise = NoExc
    /\ xpc = "move" \/ (xpc \in {"cleanup", "done"} /\ xret.set /\ xret.ok)

\* C13, in every state of the collection and at the return: the paths so far
\* are <prefix>_1.png, <prefix>_2.png, ... without gap or repeat, each holds
\* one scratch file, the scratch files were taken in ascending name order,
\* the matching files still in the scratch directory are those yet to be
\* moved, and none is left when the call returns.
C13_Collected ==
    PlotCollecting
    => /\ \A i \in 1..Len(generated_images) :
             /\ generated_images[i] = Path(output_name, i)
             /\ Cardinality({f \in results_dir :
                                 f.name = generated_images[i]}) = 1
       /\ \A i, j \in 1..Len(ScratchOrder) :
             i < j => LexLess(ScratchOrder[i], ScratchOrder[j])
       /\ xpc # "done" => Scratch = {saved[i] : i \in 1..Len(saved)}
       /\ xpc # "move" => /\ saved = <<>>
                          /\ xret = RetImages(generated_images)

\* C13, step by step: the listing has one entry per matching scratch file,
\* and each move takes one entry off the listing and adds one path.
C13_Step ==
    /\ xpc = "collect"
          => /\ Len(saved') = Cardinality(Scratch)
             /\ generated_images' = <<>>
             /\ Scratch' = Scratch
    /\ (xpc = "move" /\ xraise' = NoExc)
          => /\ Len(generated_images') = Len(generated_images) + 1
             /\ Len(saved') = Len(saved) - 1
             /\ Scratch' = Scratch \ {Head(saved)}

\* C13: a successful Plot job that left N matching files in the scratch
\* directory returns exactly N paths, the i-th being <prefix>_<i>.png, taken
\* in sorted order of the scratch names, every matching file moved to one.
C13_ArtifactsNumberedInOrder == [] C13_Collected /\ [][C13_Step]_vars

\* C13 witness: a Plot job is about to return two paths, both scratch files
\* moved.
C13_Witness ==
    /\ xpc = "cleanup"
    /\ xmode = "plot"
    /\ xret = RetImages(<<Path(output_name, 1), Path(output_name, 2)>>)
    /\ results_dir = {File(Path(output_name, 1), 1),
                      File(Path(output_name, 2), 2)}
    /\ Scratch = {}

\* Concurrent calls: the names differ; a name is plain when it is one path
\* component; no results file has been written by two calls; a returned
\* call's charts are files that its own move put there last.
DistinctNames == sess[1].output_name # sess[2].output_name
PlainName(name) == Len(name) = 1 /\ IsNotDot(name[1])
NoPathWrittenByBoth ==
    \A w1, w2 \in written : w1.file = w2.file => w1.by = w2.by
ChartsAreOwn ==
    \A s \in Sessions :
        sess[s].pc = "returned"
        => \A i \in 1..Len(sess[s].charts) :
              \E g \in results :
                  /\ g.file = FileOf(sess[s].charts[i])
                  /\ g.by = s
                  /\ g.made = s

\* C14 (as claimed): two concurrent analyses with distinct output_name
\* values never write the same destination file, and the charts each returns
\* are files moved there by its own Plot job.
C14_DistinctNamesNeverCollide ==
    DistinctNames => NoPathWrittenByBoth /\ ChartsAreOwn

\* C14 (amended): the same, for distinct output_name values that are plain
\* file names (one path component, not ".").
C14_DistinctPlainNamesNeverCollide ==
    (/\ DistinctNames
     /\ \A s \in Sessions : PlainName(sess[s].output_name))
    => NoPathWrittenByBoth /\ ChartsAreOwn

\* C14 witness: the calls named "a" and "a_1" have both returned two charts,
\* all four files in the results directory.
C14_Witness ==
    /\ sess[2].output_name = NameA1
    /\ \A s \in Sessions : sess[s].pc = "returned" /\ Len(sess[s].charts) = 2
    /\ Cardinality(results) = 4
    /\ \A s \in Sessions : \E w \in written : w.by = s

\* What a call alone does with its own planner answers and its own jobs'
\* results: one assistant and one output message per compute turn, the turn
\* counter one past them, and an outcome fixed by the last answer and by the
\* figures its own plot script left.
OwnPath(s, i) == Dest(os_path_join(results_path, sess[s].output_name), i)
AsAlone(s) ==
    LET c == sess[s]
        done == c.turn - 1
    IN  /\ Len(c.messages) = 2 + 2 * done
        /\ \A i \in 1..done :
              /\ c.responses[i] = "compute"
              /\ c.messages[1 + 2 * i] =
                     ParMsg("assistant", "response", c.responses[i], 0, s)
              /\ c.messages[2 + 2 * i] = ParMsg("user", "output", "", i, s)
        /\ c.pc = "ask" => Len(c.responses) = done /\ c.turn <= max_interactive_turns
        /\ c.pc = "job" => Len(c.responses) = c.turn
        /\ c.xpc \in {"move", "cleanup", "done"} /\ c.xmode = "plot" /\ client
              => (c.xret.set /\ ~c.xret.ok)
                 \/ Len(c.generated_images) + Len(c.saved) = c.figs
        /\ c.pc = "returned"
              => /\ Last(c.responses) = "final_1"
                 /\ c.charts = [i \in 1..c.figs |-> OwnPath(s, i)]
                 /\ c.error = NoError
        /\ c.pc = "raised"
              => /\ c.charts = <<>>
                 /\ IF Last(c.responses) = "final_1"
                    THEN c.error.msg = "Chart code execution failed"
                    ELSE /\ c.error = TurnLimitError
                         /\ done = max_interactive_turns

\* The call is inside the with-block of a job.
HasTemp(s) == sess[s].xpc \in {"wait", "collect", "move", "cleanup"}

\* C15: under every interleaving of two calls on the shared interpreter,
\* each call's history holds only its own planner answers and its own jobs'
\* outputs, two jobs never share a temporary directory or see each other's
\* files, and each call's turn count and outcome are those of the call alone.
C15_SessionsIndependent ==
    /\ \A s \in Sessions :
          /\ \A i \in 1..Len(sess[s].messages) : sess[s].messages[i].by = s
          /\ HasTemp(s)
                => /\ sess[s].temp_dir \in tmpdirs
                   /\ \A f \in tmpfiles : f.dir = sess[s].temp_dir => f.by = s
          /\ AsAlone(s)
    /\ \A s, t \in Sessions :
          (s # t /\ HasTemp(s) /\ HasTemp(t))
          => sess[s].temp_dir # sess[t].temp_dir

\* C15 witness: both calls are in a Plot job at once, each about to list the
\* files of its own temporary directory, one of them after a compute turn.
C15_Witness ==
    /\ sess[1].xpc = "collect" /\ sess[2].xpc = "collect"
    /\ sess[1].figs = 2 /\ sess[2].figs = 1
    /\ sess[1].turn = 2 /\ sess[2].turn = 1
    /\ Cardinality(tmpdirs) = 2
    /\ Cardinality(tmpfiles) = 3

\* Files in the destination directory that the footer saved.
FooterArtifacts == {f \in results_dir : f.fig # 0}

\* C16: a Plot job that returns success returns exactly the images the
\* footer saved: no artifact is a file the user code wrote itself, and with
\* no figure left open the job returns success with no artifact.
C16_OnlyFooterArtifacts ==
    (xmode = "plot" /\ xpc = "done" /\ xraise = NoExc /\ xret.set /\ xret.ok)
    => /\ Len(xret.images) = Cardinality(FooterArtifacts)
       /\ \A f \in results_dir : f.fig # 0

\* A measure of the work a session has left: the steps left in the running
\* job, within the turns left.
JobRank ==
    CASE xpc = "setup" -> MaxFigures + 8
      [] xpc = "run" -> MaxFigures + 7
      [] xpc = "wait" -> MaxFigures + 6
      [] xpc = "logs" -> MaxFigures + 5
      [] xpc = "except" -> MaxFigures + 4
      [] xpc = "finally" -> MaxFigures + 3
      [] xpc = "collect" -> MaxFigures + 2
      [] xpc = "move" -> 1 + Len(saved)
      [] xpc = "cleanup" -> 1
      [] OTHER -> 0
TurnRank == MaxFigures + 11
Rank ==
    IF Terminal THEN 0
    ELSE (max_interactive_turns + 1 - turn) * TurnRank
             + (IF pc = "ask" THEN TurnRank - 1 ELSE JobRank + 1)

\* Every action of the session begins with one of these guards; and the
\* action whose guard holds can be taken (FinalReturn is assignments only
\* below its guard).
Guarded ==
    \/ pc = "ask"
    \/ pc \in {"compute", "final"} /\ xpc = "done"
    \/ xpc \in {"setup", "run", "wait", "logs", "except", "finally", "collect",
                "move", "cleanup"}
CanStep ==
    \/ pc = "ask" /\ ENABLED PlannerFails
    \/ pc = "compute" /\ xpc = "done" /\ ENABLED ComputeReturn
    \/ pc = "final" /\ xpc = "done"
    \/ xpc = "setup" /\ ENABLED ExecSetup
    \/ xpc = "run" /\ ENABLED ExecRun
    \/ xpc = "wait" /\ ENABLED ExecWait
    \/ xpc = "logs" /\ ENABLED ExecLogs
    \/ xpc = "except" /\ ENABLED ExecExcept
    \/ xpc = "finally" /\ ENABLED ExecFinally
    \/ xpc = "collect" /\ ENABLED ExecCollect
    \/ xpc = "move" /\ ENABLED ExecMove
    \/ xpc = "cleanup" /\ ENABLED ExecCleanup

\* C17, in every state: at most max_interactive_turns planner requests and
\* as many jobs; a session that has not ended can take a step; one that has
\* ended has a report or an error and takes no further step; after a failed
\* planner call the session has ended with that failure, the failed request
\* being its last.
C17_Bounded ==
    /\ requests <= max_interactive_turns
    /\ Len(jobs) <= max_interactive_turns
    /\ Rank \in 0..((max_interactive_turns + 1) * TurnRank)
    /\ ~Terminal => CanStep
    /\ Terminal => ~Guarded
    /\ pc = "returned" => result # NoReport /\ error = NoError
    /\ pc = "raised" => result = NoReport /\ error # NoError
    /\ requests > Len(responses)
          => /\ pc = "raised"
             /\ error.type = "PlannerError"
             /\ requests = Len(responses) + 1

\* C17: analyze always ends, with a report or an error, within
\* max_interactive_turns planner requests and jobs, whatever the planner
\* answers: every step lowers the measure of work left; and a failed
\* planner call ends the session and is not retried.
C17_AlwaysTerminates == [] C17_Bounded /\ [][Rank' < Rank]_vars

\* C17 witness: a session of compute and malformed answers has used all its
\* turns and ended with the turn-limit error.
C17_Witness ==
    /\ responses = <<"compute", "other", "compute", "noaction">>
    /\ requests = max_interactive_turns
    /\ Len(jobs) = 2
    /\ pc = "raised"
    /\ error = TurnLimitError

\* Why a session failed, told from what happened, and the exception types
\* the code raises for each cause.
TurnBudgetExhausted == pc = "raised" /\ turn = max_interactive_turns + 1
ChartCodeMissing ==
    pc = "raised" /\ responses # <<>> /\ requests = Len(responses)
    /\ Last(responses) \in FinalWithoutChart
PlotJobFailed ==
    pc = "raised" /\ jobs # <<>> /\ Last(jobs).mode = "plot"
    /\ Last(jobs).ret.set /\ ~Last(jobs).ret.ok
DecodingFailed ==
    pc = "raised" /\ responses # <<>> /\ requests = Len(responses)
    /\ Last(responses) \in Undecodable
KindTurnLimit == TurnLimitError.type
KindChartCodeMissing == MissingCodeError("chart_code").type
KindPlotJobFailed == "RuntimeError"
KindDecoding == "ValueError"

\* C18: the kind of the error a failed session raises identifies its cause:
\* turn budget exhausted, final without chart code and failed Plot job have
\* kinds that differ from one another and from that of a decoding failure.
C18_KindIdentifiesCause ==
    /\ TurnBudgetExhausted
          => /\ error.type = KindTurnLimit
             /\ error.type \notin
                    {KindChartCodeMissing, KindPlotJobFailed, KindDecoding}
    /\ ChartCodeMissing
          => /\ error.type = KindChartCodeMissing
             /\ error.type \notin
                    {KindTurnLimit, KindPlotJobFailed, KindDecoding}
    /\ PlotJobFailed
          => /\ error.type = KindPlotJobFailed
             /\ error.type \notin
                    {KindTurnLimit, KindChartCodeMissing, KindDecoding}
    /\ DecodingFailed => error.type = KindDecoding

\* C19: the history only grows at its end: in every step each message
\* already in it keeps its position, role and content, so the history given
\* to the planner at a request extends the one given at the request before.
C19_HistoryAppendOnly ==
    [][/\ Len(messages') >= Len(messages)
       /\ SubSeq(messages', 1, Len(messages)) = messages
       /\ requests' > requests => pc = "ask"]_vars

\* C19 witness: the planner is asked a fourth time, with the history of
\* three turns behind the two initial messages.
C19_Witness ==
    /\ pc = "ask"
    /\ turn = 4
    /\ Len(messages) = 8
    /\ messages[4].kind = "output"
    /\ messages[6] = CorrectiveMsg

\* C20: a response that decodes as JSON but is no well-formed action (not an
\* object, no action, a non-text action, an unknown action) dispatches no
\* job, and either gets the corrective turn or ends the session with a
\* validation error; it never ends it with a bare runtime fault.
C20_NotAnActionIsClassified ==
    \A i \in 1..Len(responses) :
        responses[i] \in NotAnAction
        => /\ JobsOfTurn(i) = {}
           /\ \/ /\ Len(messages) >= 2 + 2 * i
                 /\ messages[1 + 2 * i] = AssistantMsg(responses[i])
                 /\ messages[2 + 2 * i] = CorrectiveMsg
              \/ /\ i = Len(responses)
                 /\ pc = "raised"
                 /\ error.type = "ValueError"
           /\ error.type \notin {"AttributeError", "TypeError"}

\* Responses that are a compute action with code, and a final action with
\* chart code.
ComputeActions == {"compute"}
FinalActions == {"final_0", "final_1", "final_2"}

\* C21: every turn dispatches at most one job; a Compute job only for a
\* compute action and a Plot job only for a final action; a Malformed
\* response dispatches none and still moves the turn counter on; so a
\* session has at most one Plot job, and it is its last job.
C21_OneJobPerTurn ==
    /\ \A t \in 1..max_interactive_turns : Cardinality(JobsOfTurn(t)) <= 1
    /\ \A j \in 1..Len(jobs) :
          /\ jobs[j].turn \in 1..Len(responses)
          /\ jobs[j].mode = "compute"
                => responses[jobs[j].turn] \in ComputeActions
          /\ jobs[j].mode = "plot"
                => /\ responses[jobs[j].turn] \in FinalActions
                   /\ j = Len(jobs)
    /\ Cardinality(PlotJobs) <= 1
    /\ \A i \in 1..Len(responses) :
          responses[i] \in Malformed
          => /\ JobsOfTurn(i) = {}
             /\ turn >= i + 1

\* The feedback text of a compute turn without the error marker in front
\* and the truncation notice behind: what it carries of the job's output.
Feedback == fout.v
Carried ==
    LET a == IF Feedback # <<>> /\ Head(Feedback) = ErrorMarker
             THEN Tail(Feedback) ELSE Feedback
    IN  IF a # <<>> /\ Last(a) = TruncMarker
        THEN SubSeq(a, 1, Len(a) - 1) ELSE a

\* C22 (as claimed): what the feedback turn carries of a compute job's
\* output is at most `limit` long, an output of at most `limit` is carried
\* unchanged, and after a failed job the feedback begins with the error
\* marker.
C22_OutputWithinBudgetUnchanged ==
    (fin.fn = "truncate" /\ fout.set)
    => /\ TextLen(Carried) <= limit
       /\ TextLen(fin.output) <= limit => Carried = fin.output
       /\ ~fin.success => Head(Feedback) = ErrorMarker

\* C22 (amended): the budget is applied to the output with the error marker
\* already in front: marker and output are passed unchanged when together
\* at most `limit` long, else their first `limit` characters are passed,
\* followed by the truncation notice; the marker is first after a failed
\* job either way.
C22_MarkedOutputWithinBudget ==
    (fin.fn = "truncate" /\ fout.set)
    => LET marked == IF fin.success THEN fin.output
                     ELSE <<ErrorMarker>> \o fin.output
       IN  /\ TextLen(Carried) <= limit
           /\ IF TextLen(marked) <= limit
              THEN Feedback = marked
              ELSE /\ Last(Feedback) = TruncMarker
                   /\ TextLen(Feedback) = limit + TruncMarker.n
                   /\ TextLen(Carried)
                          = limit - (IF fin.success THEN 0 ELSE ErrorMarker.n)
                   /\ \A i \in 1..(Len(Feedback) - 2) : Feedback[i] = marked[i]
                   /\ Feedback[Len(Feedback) - 1].s
                          = marked[Len(Feedback) - 1].s
           /\ ~fin.success => Head(Feedback) = ErrorMarker

\* C22 witness: the text of a failed job, longer than the limit, has been
\* cut, with the error marker in front and the notice behind.
C22_Witness ==
    /\ fout.set
    /\ fin = [fn |-> "truncate", success |-> FALSE,
              output |-> ExecFailed(1, <<Seg("log", 7000)>>)]
    /\ Head(Feedback) = ErrorMarker
    /\ Last(Feedback) = TruncMarker
    /\ TextLen(Feedback) = 6018

\* The statements of the header that must run before user code.
SetupStatements ==
    {"makedirs /out/mplconfig", "makedirs /out/.cache",
     "environ MPLCONFIGDIR", "environ XDG_CACHE_HOME", "environ HOME",
     "environ FONTCONFIG_PATH", "matplotlib.use Agg"}

Positions(q, S) == {i \in 1..Len(q) : q[i] \in S}

\* C23: the instrumented script is defined for every code and mode; it is
\* the fixed header, a line break, the user code unmodified and a line
\* break, so every setup statement of the header stands before every
\* statement of the user code; in Plot mode the footer follows and is the
\* end of the script, in Compute mode nothing follows: the Plot script is
\* the Compute script followed by the footer.
C23_InstrumentHeaderCodeFooter ==
    fin.fn = "instrument"
    => IF ~fout.set THEN ENABLED ApplyInstrument
       ELSE LET r == fout.v
                c == fin.code
                h == Len(header)
                userAt == (h + 2)..(h + 1 + Len(c))
            IN  /\ Len(r) >= h + Len(c) + 2
                /\ SubSeq(r, 1, h) = header
                /\ SubSeq(r, h + 2, h + 1 + Len(c)) = c
                /\ \A st \in SetupStatements :
                       \E i \in 1..h : /\ r[i] = st
                                       /\ \A j \in userAt : i < j
                /\ LET rest == SubSeq(r, h + Len(c) + 3, Len(r))
                   IN  rest = IF fin.autosave THEN footer ELSE <<>>
                /\ fin.autosave
                       => r = _instrument_code(c, FALSE) \o footer
                /\ r = _instrument_code(c, fin.autosave)

\* C23 witness: a Plot script and its code, which itself holds a header
\* statement, has been instrumented: header first, footer last.
C23_Witness ==
    /\ fout.set
    /\ fin = [fn |-> "instrument", code |-> <<"import matplotlib", "calc">>,
              autosave |-> TRUE]
    /\ fout.v = header \o <<"NL", "import matplotlib", "calc", "NL">> \o footer

\* A complete fenced block of a text: an opening fence at i and the next
\* fence after it at j; python-tagged when the opening fence is.
ClosesAt(t, i, j) ==
    /\ i < j /\ j <= Len(t)
    /\ t[i] \in {"FENCE", "FENCE_PY"} /\ t[j] \in {"FENCE", "FENCE_PY"}
    /\ \A k \in (i + 1)..(j - 1) : t[k] \notin {"FENCE", "FENCE_PY"}

HasBlock(t) == \E i, j \in 1..Len(t) : ClosesAt(t, i, j)
HasPyBlock(t) == \E i, j \in 1..Len(t) : t[i] = "FENCE_PY" /\ ClosesAt(t, i, j)

\* c is the content of the block opening at i: what stands between the
\* fences without the white space around it, its escaped line breaks made
\* real when it has at most one real line break.
IsContentOf(c, t, i) ==
    \E j \in 1..Len(t) :
        /\ ClosesAt(t, i, j)
        /\ LET body == ToksStrip(SubSeq(t, i + 1, j - 1))
           IN  IF Count(body, "NL") <= 1 /\ Count(body, "ESC") > 0
               THEN /\ Len(c) = Len(body)
                    /\ \A k \in 1..Len(c) :
                           c[k] = IF body[k] = "ESC" THEN "NL" ELSE body[k]
               ELSE c = body

\* C24: the code extracted from a planner field is the content of the first
\* python-tagged fenced block if there is one, also when a generic block
\* stands before it; otherwise the content of the first generic fenced
\* block; and "no code" exactly when the text has no complete fenced
\* block, which includes code given without fences.
C24_ExtractPrefersPythonBlock ==
    (fin.fn = "extract" /\ fout.set)
    => LET t == fin.text
           r == fout.v
       IN  /\ r.kind = "none" <=> ~HasBlock(t)
           /\ HasPyBlock(t)
                  => \E i \in 1..Len(t) :
                         /\ t[i] = "FENCE_PY"
                         /\ \A k \in 1..(i - 1) :
                                ~(t[k] = "FENCE_PY"
                                  /\ \E j \in 1..Len(t) : ClosesAt(t, k, j))
                         /\ r.kind = "code" /\ IsContentOf(r.code, t, i)
           /\ (HasBlock(t) /\ ~HasPyBlock(t))
                  => \E i \in 1..Len(t) :
                         /\ \A k \in 1..(i - 1) :
                                ~\E j \in 1..Len(t) : ClosesAt(t, k, j)
                         /\ r.kind = "code" /\ IsContentOf(r.code, t, i)
           /\ (\A k \in 1..Len(t) : t[k] \notin {"FENCE", "FENCE_PY"})
                  => r.kind = "none"

\* C24 witness: a generic block stands before a python-tagged one and the
\* python-tagged block's content was extracted.
C24_Witness ==
    /\ fout.set
    /\ fin = [fn |-> "extract",
              text |-> <<"FENCE", "FENCE", "FENCE_PY", "calc", "FENCE">>]
    /\ fout.v = [kind |-> "code", code |-> <<"calc">>]

\* The LLM responses so far that hold a ready_to_answer block.
HasReadyBlock(o) ==
    ~o.raised /\ \E i \in 1..Len(o.blocks) : o.blocks[i].tag = "ready"

FirstReady ==
    IF \E k \in 1..Len(dt.responses) : HasReadyBlock(dt.responses[k])
    THEN SetMin({k \in 1..Len(dt.responses) : HasReadyBlock(dt.responses[k])})
    ELSE 0

ReadyBody(o) ==
    o.blocks[SetMin({i \in 1..Len(o.blocks) : o.blocks[i].tag = "ready"})].body

\* Every think call makes at most max_iterations LLM requests, one per
\* iteration, and goes on to its return.
C25_BoundedAndReturns ==
    /\ dt.requests <= max_iterations
    /\ dt.iteration <= max_iterations
    /\ dt.requests = IF dt.pc = "request" THEN dt.iteration - 1 ELSE dt.iteration
    /\ dt.pc = "loop" => (IF dt.iteration < max_iterations
                          THEN ENABLED DTIterate ELSE ENABLED DTReturn)
    /\ dt.pc = "request" => \A o \in LLMOutcomes : ENABLED DTRequest(o)
    /\ dt.pc = "tool" => \A ok \in BOOLEAN : ENABLED DTTool(ok)
    /\ dt.pc = "exit" => ENABLED DTReturn
    /\ dt.pc = "done" => /\ dt.returned.set
                         /\ dt.returned.total_iterations = dt.requests

\* C25: think stops at the first iteration whose LLM response holds a
\* ready_to_answer block and returns that block's content as final_answer,
\* with total_iterations the number of LLM requests made; whatever the LLM,
\* the tools and the callbacks do it makes at most max_iterations requests
\* and returns a result.
C25_StopsAtFirstReadyAnswer ==
    /\ C25_BoundedAndReturns
    /\ FirstReady # 0
           => /\ dt.requests = FirstReady
              /\ dt.pc \in {"exit", "done"}
              /\ dt.pc = "done"
                     => /\ dt.returned.final_answer
                               = ReadyBody(dt.responses[FirstReady])
                        /\ dt.returned.total_iterations = FirstReady

\* C26: whenever the planner is about to be asked for the k-th time, the
\* history is the system instruction, the initial user turn with context
\* and metadata, and one assistant/user pair for each of the k-1 turns
\* before: 2 + 2(k-1) messages, user and assistant alternating after the
\* system message, each assistant message the raw response of its turn.
C26_HistoryShapeAtRequest ==
    pc = "ask"
    => LET k == requests + 1
       IN  /\ turn = k
           /\ Len(responses) = k - 1
           /\ Len(messages) = 2 + 2 * (k - 1)
           /\ messages[1] = SystemMsg
           /\ messages[2] = ContextMsg
           /\ \A i \in 2..Len(messages) :
                  messages[i].role = IF i % 2 = 0 THEN "user" ELSE "assistant"
           /\ \A j \in 1..(k - 1) :
                  /\ messages[2 * j + 1].role = "assistant"
                  /\ messages[2 * j + 1].kind = "response"
                  /\ messages[2 * j + 1].r = responses[j]
                  /\ messages[2 * j + 2].role = "user"
                  /\ messages[2 * j + 2].kind \in {"output", "corrective"}

\* C26 witness: the third request is due, after a compute turn and a
\* corrected turn.
C26_Witness ==
    /\ pc = "ask"
    /\ requests = 2
    /\ Len(messages) = 6
    /\ messages[3].role = "assistant" /\ messages[4].kind = "output"
    /\ messages[5].role = "assistant" /\ messages[6] = CorrectiveMsg

\* The planner responses with a compute action whose code field holds no
\* fenced block.
ComputeWithoutCode == {"compute_raw"}

\* C27: a compute action whose code field holds no extractable fenced code
\* ends the session at once with an error: no job is dispatched for it,
\* nothing is appended to the history, and no corrective turn is given,
\* also when turns remain.
C27_ComputeWithoutCodeEndsSession ==
    \A i \in 1..Len(responses) :
        responses[i] \in ComputeWithoutCode
        => /\ i = Len(responses)
           /\ pc = "raised"
           /\ error = MissingCodeError("code")
           /\ result = NoReport
           /\ JobsOfTurn(i) = {}
           /\ \A j \in 1..Len(jobs) : jobs[j].turn < i
           /\ turn = i
           /\ Len(messages) = 2 + 2 * (i - 1)

\* C27 witness: the second response is a compute action with unfenced code;
\* the session has ended with turns left and one job, that of turn 1.
C27_Witness ==
    /\ Len(responses) = 2
    /\ responses[1] = "compute"
    /\ responses[2] \in ComputeWithoutCode
    /\ pc = "raised"
    /\ turn = 2
    /\ Len(jobs) = 1
    /\ Len(messages) = 4

\* The input files of the job that exist on the host.
InputFiles ==
    {fin.data_files[i] : i \in 1..Len(fin.data_files)} \cap fin.host

AtAdvertisedPath(fp) == DataFile(docker_path(fp), fp) \in fout.data_dir

\* Each input file is copied in a copy that does not fail.
C28_CopiedUnlessReplaced ==
    (fin.fn = "data" /\ fout.set)
    => \A f \in fout.data_dir :
           /\ f.content \in InputFiles
           /\ f.name = docker_path(f.content)

\* C28: when the container starts, every input file that exists on the host
\* is in the data area with its own content at the /data path the planner
\* was given for it, and no two distinct input files - two with the same
\* base name in different directories included - have replaced one another
\* there.
C28_InputFilesAllPresent ==
    (fin.fn = "data" /\ fout.set)
    => /\ \A fp \in InputFiles : AtAdvertisedPath(fp)
       /\ \A fp, fq \in InputFiles :
              fp # fq => \E f, g \in fout.data_dir :
                             f # g /\ f.content = fp /\ g.content = fq

\* A Plot job has ended, and it ended in its success outcome.
PlotEnded == xmode = "plot" /\ xpc = "done"
PlotSucceeded == xret.set /\ xret.ok /\ xraise = NoExc

\* Nothing is moved into the destination before exit status 0 was seen.
C29_MovedOnlyAfterStatusZero ==
    (xpc # "idle" /\ results_dir # {})
    => /\ xmode = "plot"
       /\ res.got /\ res.has /\ res.code = 0

\* C29: a Plot job that does not end in its success outcome leaves the
\* destination directory as it was: artifacts are moved there only after
\* exit status 0 was seen, and the job never ends, reporting failure or
\* raising, with only a part of its artifacts moved.
C29_FailedPlotLeavesDestination ==
    /\ C29_MovedOnlyAfterStatusZero
    /\ (PlotEnded /\ ~PlotSucceeded) => results_dir = {}
    /\ \A j \in 1..Len(jobs) :
           (jobs[j].mode = "plot" /\ (jobs[j].raised \/ (jobs[j].ret.set /\ ~jobs[j].ret.ok)))
           => results_dir = {}

\* Up to nine open figures the i-th artifact is the i-th figure.
C30_ArtifactIsFigureUpToNine ==
    (xmode = "plot" /\ xpc = "done" /\ PlotSucceeded
     /\ Len(xret.images) <= 9)
    => \A i \in 1..Len(xret.images) :
           /\ xret.images[i] = Path(output_name, i)
           /\ File(Path(output_name, i), i) \in results_dir

\* C30: after a Plot job whose code left N figures open, the i-th returned
\* artifact <prefix>_<i>.png is the image of the i-th open figure, the file
\* the footer saved as output_<i>.png, for every N, N >= 10 included; so the
\* report, which pairs figures[i] with the i-th artifact, shows the i-th
\* figure under the i-th figure entry.
C30_ArtifactIsFigure ==
    /\ (xmode = "plot" /\ xpc = "done" /\ PlotSucceeded)
       => \A i \in 1..Len(xret.images) :
              /\ xret.images[i] = Path(output_name, i)
              /\ File(Path(output_name, i), i) \in results_dir
    /\ pc = "returned"
       => \A i \in 1..Len(result.charts) :
              /\ result.charts[i] = Path(output_name, i)
              /\ File(result.charts[i], i) \in results_dir

====
